---------------------------- MODULE Spec2Model ----------------------------
(***************************************************************************)
(* The MCTS engine of alphabeth, fixed-simulation lineage                  *)
(* (src/mcts/tree.go, src/mcts/search.go lines 438-803, the Node of        *)
(* src/unnamed/part_000, src/mcts/unsafe_safe.go).                         *)
(*                                                                         *)
(* The engine is the record t, whose fields are the fields of the Go       *)
(* struct MCTS.  Handles (naughty) are 0-based indices into t.nodes; the   *)
(* TLA+ sequences are 1-based, so handle h is nodes[h + 1].  float32       *)
(* quantities (qsa, psa, pi, policies, evaluator outputs) are exact        *)
(* rationals <<numerator, denominator>>.  The game is an implementation of *)
(* the interface game.State (src/game/state.go): a position is the         *)
(* sequence of the move indices played.  Every goroutine of Search is a    *)
(* worker with its own stack of pipeline frames; one action is one         *)
(* critical section (one lock acquisition) of the Go code.                 *)
(***************************************************************************)
EXTENDS Integers, Sequences, FiniteSets, TLC

\* ------------------------------------------------------------------ bounds
NumActions == 3      \* ActionSpace() of the model game
MaxPly == 3          \* the model game is a draw after MaxPly moves
MaxSimulation == 2   \* largest NumSimulation a configuration has
MaxSearches == 3     \* Search calls in one run of sequential simulations
MaxRaceSearches == 1 \* Search calls in one run of concurrent simulations
NumCPU == 2          \* runtime.NumCPU() of the budgeted Search
MaxBudget == 1       \* largest Budget a configuration has

\* ------------------------------------------- program constants (scaled)
Invalid == 0
Active == 1
Pruned == 2
nilNode == -1
Begin == -3
Resign == -2
\* search.go:455 has 25000000 and tree.go:66 has 12288; both are scaled to
\* the size of the trees the model game produces.
MAXTREESIZE == 6
InitialCap == 6

Moves == 0 .. (NumActions - 1)

\* ------------------------------------------------- float32 as rationals
Abs(x) == IF x < 0 THEN -x ELSE x

RECURSIVE GCD(_, _)
GCD(a, b) == IF b = 0 THEN a ELSE GCD(b, a % b)

Rat(n, d) ==
    LET g == GCD(Abs(n), d) IN <<n \div g, d \div g>>

Zero == <<0, 1>>
One == <<1, 1>>
FromInt(n) == <<n, 1>>
RatAdd(x, y) == Rat(x[1] * y[2] + y[1] * x[2], x[2] * y[2])
RatNeg(x) == <<-x[1], x[2]>>
RatSub(x, y) == RatAdd(x, RatNeg(y))
RatMul(x, y) == Rat(x[1] * y[1], x[2] * y[2])
\* x / y for y > 0
RatDiv(x, y) == Rat(x[1] * y[2], x[2] * y[1])
RatLess(x, y) == x[1] * y[2] < y[1] * x[2]

RECURSIVE RatSum(_)
RatSum(s) == IF s = <<>> THEN Zero ELSE RatAdd(Head(s), RatSum(Tail(s)))

RECURSIVE IntPow(_, _)
IntPow(b, e) == IF e = 0 THEN 1 ELSE b * IntPow(b, e - 1)

\* ---------------------------------------------------------------- the game
\* game.State: [moves |-> the moves applied so far, ptr |-> histPtr].
NewGame == [moves |-> <<>>, ptr |-> 0]
Position(g) == SubSeq(g.moves, 1, g.ptr)
MoveNumber(g) == g.ptr
Turn(g) == g.ptr % 2
LastMove(g) == IF g.ptr = 0 THEN -1 ELSE g.moves[g.ptr]
Clone(g) == g
Eq(a, b) == Position(a) = Position(b)
UndoLastMove(g) == IF g.ptr > 0 THEN [g EXCEPT !.ptr = g.ptr - 1] ELSE g
Fwd(g) == IF g.ptr < Len(g.moves) THEN [g EXCEPT !.ptr = g.ptr + 1] ELSE g
Apply(g, m) == [moves |-> Append(Position(g), m), ptr |-> g.ptr + 1]

\* Rules of the model game.  The last action index wins the game for the
\* player who plays it; the game is drawn after MaxPly moves.  After move
\* 1 only move 0 is legal when it was the first move, and no move is legal
\* (the game not being over) otherwise.  From the second move on the
\* winning move is no longer legal.
NoColor == 2
Ended(g) ==
    LET p == Position(g) IN
    IF p # <<>> /\ p[Len(p)] = NumActions - 1
      THEN [ended |-> TRUE, winner |-> (Len(p) - 1) % 2]
      ELSE IF Len(p) >= MaxPly
        THEN [ended |-> TRUE, winner |-> NoColor]
        ELSE [ended |-> FALSE, winner |-> NoColor]

LegalMoves(g) ==
    LET p == Position(g) IN
    IF Ended(g).ended THEN {}
    ELSE IF p # <<>> /\ p[Len(p)] = 1
      THEN (IF Len(p) = 1 THEN {0} ELSE {})
    ELSE IF Len(p) >= 2 THEN Moves \ {NumActions - 1}
    ELSE Moves

Check(g, m) == m \in LegalMoves(g)
PossibleMoves(g) == LegalMoves(g)

\* ----------------------------------------------------------- the evaluator
\* Inferencer.Infer: a deterministic network.  The policy puts no mass on
\* move 0 after move 1 (so that the legal moves there sum to 0), and the
\* value is NaN where move 0 answered move 1.
NaN == <<0, 0>>
IsNaN(v) == v[2] = 0

InferPolicy(g) ==
    LET p == Position(g)
        w == [i \in Moves |->
                IF p # <<>> /\ p[Len(p)] = 1
                  THEN (IF i = 0 THEN 0 ELSE 1)
                  ELSE (IF i = 0 THEN 2 ELSE 1)]
        tot == IF p # <<>> /\ p[Len(p)] = 1 THEN NumActions - 1 ELSE NumActions + 1
    IN [i \in Moves |-> Rat(w[i], tot)]

InferValue(g) ==
    LET p == Position(g) IN
    IF Len(p) >= 2 /\ p[Len(p)] = 0 /\ p[Len(p) - 1] = 1 THEN NaN
    ELSE Rat((Len(p) % 3) - 1, 2)

\* ---------------------------------------------------------- configurations
\* Config (tree.go:17-25).  InvTemp is 1/RandomTemperature: the exponent
\* math32.Pow gets; RandomTemperature is 1 or 1/2 so that it is an integer.
Configs ==
    { [PUCT |-> One, RandomCount |-> 1, InvTemp |-> it, MaxDepth |-> md,
       NumSimulation |-> ns] :
        it \in {1, 2}, md \in {MaxPly - 2, MaxPly - 1}, ns \in 0 .. MaxSimulation }

\* distmv.Dirichlet.Rand: one sample, drawn when the engine is built; with
\* the parameter 0.3 the samples lie near the corners of the simplex.
DirichletSamples ==
    { [i \in Moves |-> IF i = k THEN One ELSE Zero] : k \in {0, NumActions - 1} }

epsilon == <<1, 4>>

VARIABLES
    t,        \* the MCTS struct
    phase,    \* where Search is: "idle", "rooted", "running", "panic"
    workers,  \* the goroutines of eg.Go: stack of pipeline frames, state
    result,   \* what the last Search returned: <<>> or <<[move, err]>>
    searches, \* Search calls so far
    trace,    \* observations of the last root update and the last pop,
              \* and, in runs of one simulation at a time, what the Search
              \* before had returned
    driver    \* the locals of the budgeted Search: iter, ch, ctx

vars == <<t, phase, workers, result, searches, trace, driver>>

\* ----------------------------------------------------------------- nodes
\* Node{} as alloc builds it (tree.go:125-130). sum is not a field of Node:
\* it records the sum of the scores accumulate has written since New.
FreshNode ==
    [move |-> 0, visits |-> 0, status |-> Invalid, qsa |-> Zero,
     hasChildren |-> FALSE, psa |-> Zero, pi |-> Zero, sum |-> Zero]

\* Node.reset (part_000:270-279); pi is left alone
reset(n) ==
    [n EXCEPT !.move = -1, !.visits = 0, !.status = 0, !.qsa = Zero,
              !.hasChildren = FALSE, !.psa = Zero]

\* a faulty variant of ResetSlot: the status survives
ResetSlotKeepStatus(n) ==
    [n EXCEPT !.move = -1, !.visits = 0, !.psa = Zero, !.hasChildren = FALSE,
              !.qsa = Zero]

\* the body of the loop of MCTS.Reset over t.nodes (tree.go:223-228)
ResetSlot(n) ==
    [n EXCEPT !.move = -1, !.visits = 0, !.status = 0, !.psa = Zero,
              !.hasChildren = FALSE, !.qsa = Zero]

\* nodeFromNaughty (unsafe_safe.go:6-12) panics outside len(t.nodes)
InArena(e, h) == h >= 0 /\ h < e.nlen
NodeOf(e, h) == e.nodes[h + 1]
Children(e, h) == e.children[h + 1]

SetNode(e, h, n) == [e EXCEPT !.nodes[h + 1] = n]

\* New(game, conf, nn) (tree.go:61-86)
NewEngine(g, conf, sample) ==
    [nodes |-> <<>>, nlen |-> 0, acap |-> InitialCap, gen |-> 0,
     children |-> <<>>, freelist |-> <<>>, freeables |-> <<>>,
     root |-> nilNode, current |-> g, prev |-> <<>>, nc |-> 0,
     policies |-> <<>>, conf |-> conf, eta |-> sample, panicked |-> FALSE]

Panic(e) == [e EXCEPT !.panicked = TRUE]

\* ------------------------------------------------------------ node store
\* append(t.nodes, N) reallocates the backing array when len = cap; node
\* references taken before (their generation is older) then point into the
\* abandoned array.  The factor of the growth is the runtime's.
GrowCap(c) == 2 * c

\* a faulty variant of alloc: the handle taken from the free list stays
\* on it
allocNoPop(e) ==
    LET l == Len(e.freelist) IN
    IF l = 0
      THEN LET grow == e.nlen = e.acap
               arr == IF e.nlen < Len(e.nodes)
                        THEN [e.nodes EXCEPT ![e.nlen + 1] = FreshNode]
                        ELSE Append(e.nodes, FreshNode)
           IN [e |-> [e EXCEPT !.nodes = arr,
                               !.nlen = e.nlen + 1,
                               !.acap = IF grow THEN GrowCap(e.acap) ELSE e.acap,
                               !.gen = IF grow THEN e.gen + 1 ELSE e.gen,
                               !.children = Append(e.children, <<>>)],
               h |-> e.nlen,
               popped |-> <<>>]
      ELSE [e |-> e,
            h |-> e.freelist[l],
            popped |-> <<e.nodes[e.freelist[l] + 1].status>>]

\* alloc (tree.go:120-140): [e |-> engine after, h |-> handle,
\* popped |-> <<status of the slot>> when h came off the free list]
alloc(e) ==
    LET l == Len(e.freelist) IN
    IF l = 0
      THEN LET grow == e.nlen = e.acap
               arr == IF e.nlen < Len(e.nodes)
                        THEN [e.nodes EXCEPT ![e.nlen + 1] = FreshNode]
                        ELSE Append(e.nodes, FreshNode)
           IN [e |-> [e EXCEPT !.nodes = arr,
                               !.nlen = e.nlen + 1,
                               !.acap = IF grow THEN GrowCap(e.acap) ELSE e.acap,
                               !.gen = IF grow THEN e.gen + 1 ELSE e.gen,
                               !.children = Append(e.children, <<>>)],
               h |-> e.nlen,
               popped |-> <<>>]
      ELSE [e |-> [e EXCEPT !.freelist = SubSeq(e.freelist, 1, l - 1)],
            h |-> e.freelist[l],
            popped |-> <<e.nodes[e.freelist[l] + 1].status>>]

\* the assignments of MCTS.New under N.lock (tree.go:94-98)
InitNode(n, move, score) ==
    [n EXCEPT !.move = move, !.visits = 1, !.status = Active, !.qsa = Zero,
              !.psa = score, !.sum = Zero]

\* MCTS.New after its alloc returned a (tree.go:91-100)
NewAt(a, move, score) ==
    IF ~InArena(a.e, a.h)
      THEN [e |-> Panic(a.e), h |-> a.h, popped |-> a.popped]
      ELSE [e |-> SetNode(a.e, a.h, InitNode(NodeOf(a.e, a.h), move, score)),
            h |-> a.h, popped |-> a.popped]

\* MCTS.New (tree.go:89-101), run by one goroutine alone
New(e, move, score) == NewAt(alloc(e), move, score)

\* a faulty variant of free: the child list of the root is emptied as well
freeRootKids(e, n) ==
    IF ~InArena(e, n) THEN Panic(e)
    ELSE [e EXCEPT !.children = [i \in DOMAIN e.children |->
                                    IF i = n + 1 \/ i = e.root + 1 THEN <<>>
                                    ELSE e.children[i]],
                   !.freelist = Append(e.freelist, n),
                   !.nodes[n + 1] = reset(e.nodes[n + 1])]

\* free (tree.go:147-153)
free(e, n) ==
    IF ~InArena(e, n) THEN Panic(e)
    ELSE [e EXCEPT !.children[n + 1] = <<>>,
                   !.freelist = Append(e.freelist, n),
                   !.nodes[n + 1] = reset(e.nodes[n + 1])]

RECURSIVE freeAll(_, _)
freeAll(e, fs) ==
    IF fs = <<>> \/ e.panicked THEN e
    ELSE freeAll(free(e, Head(fs)), Tail(fs))

\* Node.findChild (part_000:258-268): the first child with the move
findChild(e, h, move) ==
    LET kids == Children(e, h)
        hit == { i \in 1 .. Len(kids) : NodeOf(e, kids[i]).move = move }
    IN IF hit = {} THEN nilNode
       ELSE kids[CHOOSE i \in hit : \A j \in hit : i <= j]

\* Node.countChildren (part_000:244-255)
RECURSIVE countChildren(_, _)
countChildren(e, h) ==
    LET kids == Children(e, h)
        F[i \in 0 .. Len(kids)] ==
            IF i = 0 THEN 0
            ELSE F[i - 1] + 1 +
                 (IF NodeOf(e, kids[i]).status = Active
                    THEN countChildren(e, kids[i]) ELSE 0)
    IN F[Len(kids)]

\* ---------------------------------------------------------- root advance
\* a faulty variant of cleanChildren: nothing below h is touched
cleanNothing(ch, h) == <<>>

\* the handles cleanChildren(h) invalidates and enqueues, in its order
\* (tree.go:172-182)
RECURSIVE cleanChildren(_, _)
cleanChildren(ch, h) ==
    LET kids == ch[h + 1]
        F[i \in 0 .. Len(kids)] ==
            IF i = 0 THEN <<>>
            ELSE F[i - 1] \o <<kids[i]>> \o cleanChildren(ch, kids[i])
    IN F[Len(kids)]

\* a faulty variant of Discarded: the new root is discarded with the rest
DiscardAll(kids, newRoot) == kids

\* the children of the old root that cleanup discards (tree.go:159-160)
Discarded(kids, newRoot) == SelectSeq(kids, LAMBDA k : k # newRoot)

\* the handles cleanup(oldRoot, newRoot) invalidates and enqueues
cleanupOrder(e, oldRoot, newRoot) ==
    LET drop == Discarded(Children(e, oldRoot), newRoot)
        F[i \in 0 .. Len(drop)] ==
            IF i = 0 THEN <<>>
            ELSE F[i - 1] \o <<drop[i]>> \o cleanChildren(e.children, drop[i])
    IN F[Len(drop)]

\* cleanup (tree.go:156-170)
cleanup(e, oldRoot, newRoot) ==
    LET order == cleanupOrder(e, oldRoot, newRoot)
        gone == { order[i] : i \in 1 .. Len(order) }
    IN [e EXCEPT
          !.nodes = [i \in DOMAIN e.nodes |->
                        IF (i - 1) \in gone
                          THEN [e.nodes[i] EXCEPT !.status = Invalid]
                          ELSE e.nodes[i]],
          !.children = [i \in DOMAIN e.children |->
                        IF (i - 1) \in gone THEN <<>>
                        ELSE IF i - 1 = oldRoot THEN <<newRoot>>
                        ELSE e.children[i]],
          !.freeables = e.freeables \o order]

RECURSIVE UndoMoves(_, _)
UndoMoves(g, k) == IF k = 0 THEN g ELSE UndoMoves(UndoLastMove(g), k - 1)

\* the set of handles below h
RECURSIVE Below(_, _)
Below(ch, h) ==
    LET kids == ch[h + 1] IN
    UNION { {kids[i]} \cup Below(ch, kids[i]) : i \in 1 .. Len(kids) }

\* one promotion of the replay loop (search.go:684-692): the root moves
\* to newRoot, the rest of the old root's subtree is cleaned up, prev
\* advances by the move
promote(e, newRoot, move) ==
    [cleanup([e EXCEPT !.root = newRoot], e.root, newRoot)
       EXCEPT !.prev = <<Apply(e.prev[1], move)>>]

\* what a promotion did: the old root, its children, the move, the new
\* root, the handles below the old root and those below the new one
StepOf(e, newRoot, move) ==
    [oldRoot |-> e.root, newRoot |-> newRoot, move |-> move,
     kids |-> Children(e, e.root),
     below |-> Below(e.children, e.root),
     stay |-> Below(e.children, newRoot)]

\* the replay loop of newRootState (search.go:675-693), k iterations left
RECURSIVE replay(_, _, _, _)
replayTo(e, fwd, k, steps, newRoot) ==
    IF newRoot = nilNode
      THEN [e |-> e, ok |-> FALSE, steps |-> steps]
      ELSE replay(promote(e, newRoot, LastMove(fwd)), fwd, k - 1,
                  Append(steps, StepOf(e, newRoot, LastMove(fwd))))

replay(e, tmp, k, steps) ==
    IF k = 0 THEN [e |-> e, ok |-> TRUE, steps |-> steps]
    ELSE IF ~InArena(e, e.root)
      THEN [e |-> Panic(e), ok |-> FALSE, steps |-> steps]
    ELSE replayTo(e, Fwd(tmp), k, steps,
                  findChild(e, e.root, LastMove(Fwd(tmp))))

\* the checks after the loop (search.go:695-701)
replayed(r) ==
    IF ~r.ok THEN r
    ELSE IF MoveNumber(r.e.current) # MoveNumber(r.e.prev[1])
      THEN [r EXCEPT !.ok = FALSE]
    ELSE IF ~Eq(r.e.current, r.e.prev[1])
      THEN [r EXCEPT !.ok = FALSE]
    ELSE r

\* the replay from tmp, the current state with depth moves undone
\* (search.go:671-701)
replayFrom(e, tmp, depth) ==
    IF ~Eq(tmp, e.prev[1]) THEN [e |-> e, ok |-> FALSE, steps |-> <<>>]
    ELSE replayed(replay(e, tmp, depth, <<>>))

\* newRootState (search.go:658-702)
newRootState(e) ==
    IF e.root = nilNode \/ e.prev = <<>>
      THEN [e |-> e, ok |-> FALSE, steps |-> <<>>]
    ELSE IF MoveNumber(e.current) - MoveNumber(e.prev[1]) < 0
      THEN [e |-> e, ok |-> FALSE, steps |-> <<>>]
    ELSE replayFrom(e, UndoMoves(Clone(e.current),
                                 MoveNumber(e.current) - MoveNumber(e.prev[1])),
                    MoveNumber(e.current) - MoveNumber(e.prev[1]))

\* the end of updateRoot (search.go:718-726)
finishRoot(e) ==
    IF e.panicked THEN e
    ELSE IF ~InArena(e, e.root) THEN Panic(e)
    ELSE IF Len(Children(e, e.root)) = 0
      THEN [e EXCEPT !.prev = <<>>, !.nc = countChildren(e, e.root),
                     !.nodes[e.root + 1].hasChildren = FALSE]
      ELSE [e EXCEPT !.prev = <<>>, !.nc = countChildren(e, e.root)]

\* updateRoot with the node n of t.New as the root (search.go:711, 715)
rootNew(n, steps) ==
    [e |-> finishRoot([n.e EXCEPT !.root = n.h]), popped |-> n.popped,
     steps |-> steps, ok |-> FALSE]

\* updateRoot after newRootState returned r (search.go:712-726)
rootAfter(r, pick) ==
    IF r.e.panicked
      THEN [e |-> r.e, popped |-> <<>>, steps |-> r.steps, ok |-> FALSE]
    ELSE IF r.ok
      THEN [e |-> finishRoot(r.e), popped |-> <<>>, steps |-> r.steps,
            ok |-> TRUE]
    ELSE IF PossibleMoves(r.e.current) = {}
      THEN [e |-> Panic(r.e), popped |-> <<>>, steps |-> r.steps, ok |-> FALSE]
    ELSE rootNew(New(r.e, pick, Zero), r.steps)

\* updateRoot (search.go:706-727); pick is the move rand.Intn chooses.
\* [e |-> engine after, popped, steps, ok |-> the tree was reused]
updateRoot(e, pick) ==
    IF e.root = nilNode
      THEN rootNew(New([e EXCEPT !.freeables = <<>>], Begin, Zero), <<>>)
      ELSE rootAfter(newRootState([e EXCEPT !.freeables = <<>>]), pick)

\* --------------------------------------------------------------- pipeline
\* one activation of searchState.pipeline (search.go:519-572) and of the
\* expandAndSimulate it calls: node is start, depth the depth after the
\* increment, ngen/nngen/nextgen the generation of the backing array the
\* references n (search.go:582), N (tree.go:91) and next (search.go:559)
\* point into, list the sorted nodelist, i the position of the loop of
\* search.go:623, nn the new node, v the value the recursion returned.
Frame(h, d) ==
    [node |-> h, depth |-> d, pc |-> "enter", ngen |-> 0, list |-> <<>>,
     i |-> 0, value |-> Zero, nn |-> nilNode, nngen |-> 0, next |-> nilNode,
     nextgen |-> 0, v |-> Zero]

\* the goroutine of search.go:489-493
Worker(e) == [stack |-> <<Frame(e.root, 0)>>, g |-> Clone(e.current),
              err |-> FALSE]

Top(wk) == wk.stack[Len(wk.stack)]
SetTop(wk, f) == [wk EXCEPT !.stack[Len(wk.stack)] = f]

\* return r from the activation on top: the caller goes on at
\* search.go:567 with value = r
Return(wk, r) ==
    LET n == Len(wk.stack) IN
    IF n = 1 THEN [wk EXCEPT !.stack = <<>>]
    ELSE [wk EXCEPT !.stack =
            Append(SubSeq(wk.stack, 1, n - 2),
                   [wk.stack[n - 1] EXCEPT !.v = r, !.pc = "accumulate"])]

\* return 0, err: every caller returns it on (search.go:567-569)
Fail(wk) == [wk EXCEPT !.stack = <<>>, !.err = TRUE]

\* a faulty variant of EndedValue: the sign of the winner's side is kept
EndedValueUnflipped(g) ==
    LET r == Ended(g) IN
    IF r.winner = NoColor THEN Zero
    ELSE IF Turn(g) = r.winner THEN One
    ELSE FromInt(-1)

\* the value pipeline returns on an ended game (search.go:529-537)
EndedValue(g) ==
    LET r == Ended(g) IN
    IF r.winner = NoColor THEN Zero
    ELSE IF Turn(g) = r.winner THEN FromInt(-1)
    ELSE One

\* dirichletNoise (search.go:576-578)
dirichletNoise(e, index, p) ==
    RatAdd(RatMul(RatSub(One, epsilon), p), RatMul(epsilon, e.eta[index]))

\* the legal moves in index order with the policy's score
\* (search.go:594-603)
RECURSIVE LegalPairs(_, _, _)
LegalPairs(g, policy, i) ==
    IF i >= NumActions THEN <<>>
    ELSE (IF Check(g, i) THEN <<[Move |-> i, Score |-> policy[i]]>> ELSE <<>>)
         \o LegalPairs(g, policy, i + 1)

Scores(list) == [k \in 1 .. Len(list) |-> list[k].Score]

\* a faulty variant of Priors: the scores of the network as they are
PriorsUnscaled(list) == list

\* the prior of each legal move before the noise (search.go:605-607,
\* 611-613): renormalised by legalSum, or uniform
Priors(list) ==
    LET legalSum == RatSum(Scores(list)) IN
    IF RatLess(Zero, legalSum)
      THEN [k \in 1 .. Len(list) |->
              [Move |-> list[k].Move, Score |-> RatDiv(list[k].Score, legalSum)]]
      ELSE [k \in 1 .. Len(list) |->
              [Move |-> list[k].Move, Score |-> Rat(1, Len(list))]]

\* search.go:605-616: Prior keeps the score before the noise
Noised(e, list) ==
    LET pr == Priors(list) IN
    [k \in 1 .. Len(list) |->
        [Move |-> pr[k].Move, Prior |-> pr[k].Score,
         Score |-> dirichletNoise(e, pr[k].Move, pr[k].Score)]]

\* sort.Sort(byScore(nodelist)) (search.go:621, 786-791): Go sorts fewer
\* than seven elements by insertion
RECURSIVE InsertByScore(_, _)
InsertByScore(sorted, p) ==
    IF sorted = <<>> THEN <<p>>
    ELSE LET last == sorted[Len(sorted)] IN
         IF RatLess(last.Score, p.Score)
           THEN Append(InsertByScore(SubSeq(sorted, 1, Len(sorted) - 1), p), last)
           ELSE Append(sorted, p)

RECURSIVE SortByScore(_)
SortByScore(list) ==
    IF list = <<>> THEN <<>>
    ELSE InsertByScore(SortByScore(SubSeq(list, 1, Len(list) - 1)),
                       list[Len(list)])

\* ----------------------------------------------------------------- Select
LCM(a, b) == (a \div GCD(a, b)) * b

\* x.q + x.c * sqrt(pv) > y.q + y.c * sqrt(pv), exactly
ScoreGreater(x, y, pv) ==
    LET a == RatSub(x.q, y.q)
        b == RatSub(y.c, x.c)
        L == LCM(a[2], b[2])
        A == a[1] * (L \div a[2])
        B == b[1] * (L \div b[2])
    IN IF pv = 0 \/ B = 0 THEN A > 0
       ELSE IF B > 0 THEN A > 0 /\ A * A > B * B * pv
       ELSE A >= 0 \/ A * A < B * B * pv

\* a faulty variant of Select: a later child with an equal score wins
SelectLastTie(e, h) ==
    LET kids == Children(e, h)
        valid == { i \in 1 .. Len(kids) : NodeOf(e, kids[i]).status # Invalid }
        Sum[i \in 0 .. Len(kids)] ==
            IF i = 0 THEN 0
            ELSE Sum[i - 1] + (IF i \in valid THEN NodeOf(e, kids[i]).visits ELSE 0)
        parentVisits == Sum[Len(kids)]
        usa(i) ==
            LET c == NodeOf(e, kids[i]) IN
            [q |-> IF c.visits > 0 THEN c.qsa ELSE Zero,
             c |-> RatDiv(RatMul(e.conf.PUCT, c.psa), FromInt(1 + c.visits))]
        active == { i \in 1 .. Len(kids) : NodeOf(e, kids[i]).status = Active }
        Best[i \in 0 .. Len(kids)] ==
            IF i = 0 THEN 0
            ELSE IF i \notin active THEN Best[i - 1]
            ELSE IF Best[i - 1] = 0 THEN i
            ELSE IF ScoreGreater(usa(Best[i - 1]), usa(i), parentVisits)
                   THEN Best[i - 1] ELSE i
    IN IF Best[Len(kids)] = 0 THEN nilNode ELSE kids[Best[Len(kids)]]

\* Node.Select (part_000:189-233); nilNode stands for the panic
Select(e, h) ==
    LET kids == Children(e, h)
        valid == { i \in 1 .. Len(kids) : NodeOf(e, kids[i]).status # Invalid }
        Sum[i \in 0 .. Len(kids)] ==
            IF i = 0 THEN 0
            ELSE Sum[i - 1] + (IF i \in valid THEN NodeOf(e, kids[i]).visits ELSE 0)
        parentVisits == Sum[Len(kids)]
        usa(i) ==
            LET c == NodeOf(e, kids[i]) IN
            [q |-> IF c.visits > 0 THEN c.qsa ELSE Zero,
             c |-> RatDiv(RatMul(e.conf.PUCT, c.psa), FromInt(1 + c.visits))]
        active == { i \in 1 .. Len(kids) : NodeOf(e, kids[i]).status = Active }
        Best[i \in 0 .. Len(kids)] ==
            IF i = 0 THEN 0
            ELSE IF i \notin active THEN Best[i - 1]
            ELSE IF Best[i - 1] = 0 THEN i
            ELSE IF ScoreGreater(usa(i), usa(Best[i - 1]), parentVisits)
                   THEN i ELSE Best[i - 1]
    IN IF Best[Len(kids)] = 0 THEN nilNode ELSE kids[Best[Len(kids)]]

\* a faulty variant of accumulate: the sum is divided by the visits before
\* the update
accumulateOverVisits(n, v) ==
    [n EXCEPT !.qsa = RatDiv(RatAdd(RatMul(FromInt(n.visits), n.qsa), v),
                             FromInt(n.visits)),
              !.sum = RatAdd(n.sum, v)]

\* Node.accumulate (part_000:236-241)
accumulate(n, v) ==
    [n EXCEPT !.qsa = RatDiv(RatAdd(RatMul(FromInt(n.visits), n.qsa), v),
                             FromInt(n.visits + 1)),
              !.sum = RatAdd(n.sum, v)]

\* a faulty variant of visit: the increment is lost
visitLost(n) == n

\* n.visits++ of Node.Update (part_000:68-70)
visit(n) == [n EXCEPT !.visits = n.visits + 1]

\* --------------------------------------------- policies and move choice
\* the children of the root that count (IsValid), in list order
ValidKids(e) ==
    SelectSeq(Children(e, e.root), LAMBDA k : NodeOf(e, k).status # Invalid)

RECURSIVE PowSum(_, _, _)
PowSum(e, kids, k) ==
    IF kids = <<>> THEN 0
    ELSE IntPow(NodeOf(e, Head(kids)).visits, k) + PowSum(e, Tail(kids), k)

\* the exponent of the numerator (search.go:731-734, 749)
NumeratorExp(e) ==
    IF MoveNumber(e.current) < e.conf.RandomCount THEN e.conf.InvTemp ELSE 1

\* the exponent of the denominator (search.go:741)
DenominatorExp(e) == e.conf.InvTemp

\* p of search.go:749-750 for child k
ImprovedPolicy(e, k) ==
    Rat(IntPow(NodeOf(e, k).visits, NumeratorExp(e)),
        PowSum(e, ValidKids(e), DenominatorExp(e)))

\* updatePolicies (search.go:729-756): a later child with the same move
\* overwrites policies[move]
RECURSIVE setPolicies(_, _)
setPolicies(e, kids) ==
    IF kids = <<>> THEN e
    ELSE LET k == Head(kids)
             n == NodeOf(e, k)
             p == ImprovedPolicy(e, k)
         IN setPolicies(
              [e EXCEPT !.policies = <<[e.policies[1] EXCEPT ![n.move] = p]>>,
                        !.nodes[k + 1].pi = p],
              Tail(kids))

updatePolicies(e) ==
    setPolicies([e EXCEPT !.policies = <<[m \in Moves |-> Zero]>>], ValidKids(e))

\* sort.Sort(fancySort{...}) (search.go:638, 771-778): by pi, largest first
RECURSIVE InsertByPi(_, _, _)
InsertByPi(e, sorted, k) ==
    IF sorted = <<>> THEN <<k>>
    ELSE LET last == sorted[Len(sorted)] IN
         IF RatLess(NodeOf(e, last).pi, NodeOf(e, k).pi)
           THEN Append(InsertByPi(e, SubSeq(sorted, 1, Len(sorted) - 1), k), last)
           ELSE Append(sorted, k)

RECURSIVE SortByPi(_, _)
SortByPi(e, kids) ==
    IF kids = <<>> THEN <<>>
    ELSE InsertByPi(e, SortByPi(e, SubSeq(kids, 1, Len(kids) - 1)), kids[Len(kids)])

\* the indices (from 1) sampleChild can return (tree.go:185-214): those
\* rnd can fall on, or the first when it falls on none
SampleSet(e) ==
    LET kids == Children(e, e.root)
        hit == { i \in 1 .. Len(kids) : NodeOf(e, kids[i]).visits > 0 }
    IN IF hit = {} THEN {1} ELSE hit

\* a faulty variant of BestIndices: the child is sampled at every move
BestIndicesSampled(e) == SampleSet(e)

\* the indices bestMove can take (search.go:640-643)
BestIndices(e) ==
    IF MoveNumber(e.current) < e.conf.RandomCount THEN SampleSet(e) ELSE {1}

\* bestMove (search.go:634-654) with idx chosen: the engine after the
\* sort, and the move index returned
bestMove(e, idx) ==
    LET sorted == SortByPi(e, Children(e, e.root))
        e1 == [e EXCEPT !.children[e.root + 1] = sorted]
    IN IF Len(sorted) = 0 THEN [e |-> e1, move |-> Resign]
       ELSE [e |-> e1, move |-> NodeOf(e1, sorted[idx]).move]

NoMove == -1

\* Search after bestMove returned b (search.go:506-512)
moved(b) ==
    IF b.move \notin (Moves \cup {Resign})
      THEN [e |-> b.e, move |-> NoMove, err |-> TRUE]
      ELSE [e |-> [b.e EXCEPT !.prev = <<Clone(b.e.current)>>],
            move |-> b.move, err |-> FALSE]

\* Search after eg.Wait() (search.go:495-512)
finishSearch(e, failed, idx) ==
    IF failed THEN [e |-> e, move |-> NoMove, err |-> TRUE]
    ELSE IF ~InArena(e, e.root) THEN [e |-> Panic(e), move |-> NoMove, err |-> TRUE]
    ELSE IF ~NodeOf(e, e.root).hasChildren THEN [e |-> e, move |-> NoMove, err |-> TRUE]
    ELSE moved(bestMove(updatePolicies(e), idx))

\* MCTS.Reset (tree.go:216-239)
Reset(e) ==
    [e EXCEPT
       !.nodes = [i \in DOMAIN e.nodes |->
                    IF i <= e.nlen THEN ResetSlot(e.nodes[i]) ELSE e.nodes[i]],
       !.freelist = [i \in 1 .. e.nlen |-> i - 1],
       !.freeables = <<>>,
       !.children = [i \in DOMAIN e.children |-> <<>>],
       !.nlen = 0,
       !.policies = <<>>]

\* ----------------------------------------------------------------- state
NoTrace == [popped |-> <<>>, steps |-> <<>>, reused |-> FALSE, kept |-> <<>>,
            snap |-> <<>>, reset |-> FALSE, last |-> <<>>]

\* no budgeted Search is under way
NoDriver == [iter |-> 0, ch |-> <<>>, cancelled |-> FALSE]

Init ==
    /\ \E conf \in Configs, sample \in DirichletSamples :
          t = NewEngine(NewGame, conf, sample)
    /\ phase = "idle"
    /\ workers = <<>>
    /\ result = <<>>
    /\ searches = 0
    /\ trace = NoTrace
    /\ driver = NoDriver


Phase(e, p) == IF e.panicked THEN "panic" ELSE p

\* the Search calls explored for a configuration
SearchBound(conf) ==
    IF conf.NumSimulation > 1 THEN MaxRaceSearches ELSE MaxSearches

\* between two Search calls: the engine is idle and a Search is to follow
Between == phase = "idle" /\ searches < SearchBound(t.conf)

\* the arena plays a move on the game the engine shares (arena.go:114)
Play(m) ==
    /\ Between
    /\ Check(t.current, m)
    /\ t' = [t EXCEPT !.current = Apply(t.current, m)]
    /\ UNCHANGED <<phase, workers, result, searches, trace, driver>>

\* a.game.Reset() (part_008:109)
GameReset ==
    /\ Between
    /\ t.current # NewGame
    /\ t' = [t EXCEPT !.current = NewGame]
    /\ UNCHANGED <<phase, workers, result, searches, trace, driver>>

\* MCTS.Reset()
DoReset ==
    /\ Between
    /\ t' = Reset(t)
    /\ trace' = [NoTrace EXCEPT !.reset = TRUE]
    /\ UNCHANGED <<phase, workers, result, searches, driver>>

\* the values rand.Intn can give updateRoot (search.go:714)
Picks(e) == IF PossibleMoves(e.current) = {} THEN {0} ELSE PossibleMoves(e.current)

\* the visits of the nodes the new root keeps, as they were before
Kept(before, after) ==
    LET S == {after.root} \cup Below(after.children, after.root) IN
    [h \in S |-> NodeOf(before, h).visits]

\* the nodes the new root keeps with their child lists, as they were before
Snapshot(before, after) ==
    LET S == {after.root} \cup Below(after.children, after.root) IN
    [h \in S |-> [node |-> NodeOf(before, h), kids |-> Children(before, h)]]

\* the state after updateRoot returned u
Rooted(u) ==
    /\ t' = u.e
    /\ phase' = Phase(u.e, "rooted")
    /\ trace' = [popped |-> u.popped, steps |-> u.steps, reused |-> u.ok,
                 kept |-> IF u.ok /\ ~u.e.panicked THEN Kept(t, u.e) ELSE <<>>,
                 snap |-> IF u.ok /\ ~u.e.panicked THEN Snapshot(t, u.e) ELSE <<>>,
                 reset |-> FALSE,
                 last |-> IF u.e.conf.NumSimulation = 1 THEN result ELSE <<>>]

\* Search, line 481: updateRoot()
SearchUpdateRoot ==
    /\ Between
    /\ \E pick \in Picks(t) : Rooted(updateRoot(t, pick))
    /\ searches' = searches + 1
    /\ result' = <<>>
    /\ UNCHANGED <<workers, driver>>

\* Search, lines 483-494: free the freeables, start the simulations
SearchFree ==
    /\ phase = "rooted"
    /\ LET e == freeAll(t, t.freeables) IN
         /\ t' = e
         /\ phase' = Phase(e, "running")
         /\ workers' = [w \in 1 .. e.conf.NumSimulation |-> Worker(e)]
    /\ UNCHANGED <<result, searches, trace, driver>>

\* a faulty variant of PipelineEnter: the depth is counted and not tested
PipelineEnterNoDepthTest(w) ==
    /\ phase = "running"
    /\ workers[w].stack # <<>>
    /\ LET wk == workers[w]
           f == Top(wk)
           d == f.depth + 1
       IN /\ f.pc = "enter"
          /\ IF Ended(wk.g).ended
               THEN workers' = [workers EXCEPT ![w] = Return(wk, EndedValue(wk.g))]
                    /\ phase' = phase
             ELSE IF t.nc >= MAXTREESIZE
               THEN workers' = [workers EXCEPT ![w] = Return(wk, Zero)] /\ phase' = phase
             ELSE IF ~InArena(t, f.node)
               THEN phase' = "panic" /\ workers' = workers
             ELSE /\ workers' = [workers EXCEPT ![w] = SetTop(wk,
                        [f EXCEPT !.depth = d,
                                  !.pc = IF NodeOf(t, f.node).hasChildren
                                           THEN "select" ELSE "expand"])]
                  /\ phase' = phase
    /\ UNCHANGED <<t, result, searches, trace, driver>>

\* pipeline, lines 520-545
PipelineEnter(w) ==
    /\ phase = "running"
    /\ workers[w].stack # <<>>
    /\ LET wk == workers[w]
           f == Top(wk)
           d == f.depth + 1
       IN /\ f.pc = "enter"
          /\ IF d > t.conf.MaxDepth
               THEN workers' = [workers EXCEPT ![w] = Return(wk, Zero)] /\ phase' = phase
             ELSE IF Ended(wk.g).ended
               THEN workers' = [workers EXCEPT ![w] = Return(wk, EndedValue(wk.g))]
                    /\ phase' = phase
             ELSE IF t.nc >= MAXTREESIZE
               THEN workers' = [workers EXCEPT ![w] = Return(wk, Zero)] /\ phase' = phase
             ELSE IF ~InArena(t, f.node)
               THEN phase' = "panic" /\ workers' = workers
             ELSE /\ workers' = [workers EXCEPT ![w] = SetTop(wk,
                        [f EXCEPT !.depth = d,
                                  !.pc = IF NodeOf(t, f.node).hasChildren
                                           THEN "select" ELSE "expand"])]
                  /\ phase' = phase
    /\ UNCHANGED <<t, result, searches, trace, driver>>

\* a faulty variant of ExpandStart: the value is not tested for NaN
ExpandStartAnyValue(w) ==
    /\ phase = "running"
    /\ workers[w].stack # <<>>
    /\ LET wk == workers[w]
           f == Top(wk)
           value == InferValue(wk.g)
           list == SortByScore(Noised(t, LegalPairs(wk.g, InferPolicy(wk.g), 0)))
       IN /\ f.pc = "expand"
          /\ IF Len(list) = 0
               THEN workers' = [workers EXCEPT ![w] = Return(wk, RatNeg(value))]
             ELSE workers' = [workers EXCEPT ![w] = SetTop(wk,
                        [f EXCEPT !.pc = "find", !.ngen = t.gen, !.list = list,
                                  !.i = 1, !.value = value])]
    /\ UNCHANGED <<t, phase, result, searches, trace, driver>>

\* a faulty variant of ExpandStart: 0 is returned when no move is legal
ExpandStartEmptyZero(w) ==
    /\ phase = "running"
    /\ workers[w].stack # <<>>
    /\ LET wk == workers[w]
           f == Top(wk)
           value == InferValue(wk.g)
           list == SortByScore(Noised(t, LegalPairs(wk.g, InferPolicy(wk.g), 0)))
       IN /\ f.pc = "expand"
          /\ IF IsNaN(value) \/ Len(list) = 0
               THEN workers' = [workers EXCEPT ![w] = Return(wk, RatNeg(Zero))]
             ELSE workers' = [workers EXCEPT ![w] = SetTop(wk,
                        [f EXCEPT !.pc = "find", !.ngen = t.gen, !.list = list,
                                  !.i = 1, !.value = value])]
    /\ UNCHANGED <<t, phase, result, searches, trace, driver>>

\* expandAndSimulate, lines 581-621
ExpandStart(w) ==
    /\ phase = "running"
    /\ workers[w].stack # <<>>
    /\ LET wk == workers[w]
           f == Top(wk)
           value == InferValue(wk.g)
           list == SortByScore(Noised(t, LegalPairs(wk.g, InferPolicy(wk.g), 0)))
       IN /\ f.pc = "expand"
          /\ IF IsNaN(value)
               THEN workers' = [workers EXCEPT ![w] = Return(wk, RatNeg(Zero))]
             ELSE IF Len(list) = 0
               THEN workers' = [workers EXCEPT ![w] = Return(wk, RatNeg(value))]
             ELSE workers' = [workers EXCEPT ![w] = SetTop(wk,
                        [f EXCEPT !.pc = "find", !.ngen = t.gen, !.list = list,
                                  !.i = 1, !.value = value])]
    /\ UNCHANGED <<t, phase, result, searches, trace, driver>>

\* the next pair of the loop of search.go:623, or the return of line 631
\* and of line 554
NextPair(wk) ==
    LET f == Top(wk) IN
    IF f.i = Len(f.list) THEN Return(wk, RatNeg(f.value))
    ELSE SetTop(wk, [f EXCEPT !.pc = "find", !.i = f.i + 1, !.nn = nilNode])

\* n.findChild(p.Move), line 624
ExpandFind(w) ==
    /\ phase = "running"
    /\ workers[w].stack # <<>>
    /\ LET wk == workers[w]
           f == Top(wk)
       IN /\ f.pc = "find"
          /\ IF findChild(t, f.node, f.list[f.i].Move) = nilNode
               THEN workers' = [workers EXCEPT ![w] = SetTop(wk, [f EXCEPT !.pc = "new"])]
               ELSE workers' = [workers EXCEPT ![w] = NextPair(wk)]
    /\ UNCHANGED <<t, phase, result, searches, trace, driver>>

\* t.New, lines 90-91 of tree.go: alloc and the reference N
ExpandAlloc(w) ==
    /\ phase = "running"
    /\ workers[w].stack # <<>>
    /\ LET wk == workers[w]
           f == Top(wk)
           a == alloc(t)
       IN /\ f.pc = "new"
          /\ t' = a.e
          /\ trace' = [trace EXCEPT !.popped = IF a.popped = <<>> THEN @ ELSE a.popped]
          /\ IF ~InArena(a.e, a.h)
               THEN phase' = "panic" /\ workers' = workers
               ELSE /\ phase' = phase
                    /\ workers' = [workers EXCEPT ![w] = SetTop(wk,
                          [f EXCEPT !.pc = "init", !.nn = a.h, !.nngen = a.e.gen])]
    /\ UNCHANGED <<result, searches, driver>>

\* t.New, lines 92-98 of tree.go: the fields, through N
ExpandInit(w) ==
    /\ phase = "running"
    /\ workers[w].stack # <<>>
    /\ LET wk == workers[w]
           f == Top(wk)
           p == f.list[f.i]
       IN /\ f.pc = "init"
          /\ t' = IF f.nngen = t.gen
                    THEN SetNode(t, f.nn, InitNode(NodeOf(t, f.nn), p.Move, p.Score))
                    ELSE t
          /\ workers' = [workers EXCEPT ![w] = SetTop(wk, [f EXCEPT !.pc = "add"])]
    /\ UNCHANGED <<phase, result, searches, trace, driver>>

\* n.AddChild(nn), line 626 (part_000:58-63)
ExpandAddChild(w) ==
    /\ phase = "running"
    /\ workers[w].stack # <<>>
    /\ LET wk == workers[w]
           f == Top(wk)
       IN /\ f.pc = "add"
          /\ t' = [t EXCEPT !.children[f.node + 1] = Append(@, f.nn)]
          /\ workers' = [workers EXCEPT ![w] = SetTop(wk, [f EXCEPT !.pc = "sethas"])]
    /\ UNCHANGED <<phase, result, searches, trace, driver>>

\* n.SetHasChild(true), line 627, through the n of line 582
ExpandSetHasChild(w) ==
    /\ phase = "running"
    /\ workers[w].stack # <<>>
    /\ LET wk == workers[w]
           f == Top(wk)
       IN /\ f.pc = "sethas"
          /\ t' = IF f.ngen = t.gen
                    THEN [t EXCEPT !.nodes[f.node + 1].hasChildren = TRUE]
                    ELSE t
          /\ workers' = [workers EXCEPT ![w] = NextPair(wk)]
    /\ UNCHANGED <<phase, result, searches, trace, driver>>

\* a faulty variant of PipelineSelect: the simulation runs on t.current
\* itself (g := t.current without Clone), so the move is applied to it
PipelineSelectOnCurrent(w) ==
    /\ phase = "running"
    /\ workers[w].stack # <<>>
    /\ LET wk == workers[w]
           f == Top(wk)
           best == Select(t, f.node)
       IN /\ f.pc = "select"
          /\ IF best = nilNode \/ ~InArena(t, best)
               THEN phase' = "panic" /\ workers' = workers /\ t' = t
             ELSE IF NodeOf(t, best).move \notin Moves
               THEN phase' = phase /\ workers' = [workers EXCEPT ![w] = Fail(wk)]
                    /\ t' = t
             ELSE IF ~Check(wk.g, NodeOf(t, best).move)
               THEN phase' = "panic" /\ workers' = workers /\ t' = t
             ELSE /\ phase' = phase
                  /\ t' = [t EXCEPT !.current = Apply(wk.g, NodeOf(t, best).move)]
                  /\ workers' = [workers EXCEPT ![w] =
                       [stack |-> Append(
                           SubSeq(wk.stack, 1, Len(wk.stack) - 1)
                             \o <<[f EXCEPT !.pc = "wait", !.next = best,
                                            !.nextgen = t.gen]>>,
                           Frame(best, f.depth)),
                        g |-> Apply(wk.g, NodeOf(t, best).move),
                        err |-> FALSE]]
    /\ UNCHANGED <<result, searches, trace, driver>>

\* pipeline, lines 558-566: Select, the move, Apply, the recursive call
PipelineSelect(w) ==
    /\ phase = "running"
    /\ workers[w].stack # <<>>
    /\ LET wk == workers[w]
           f == Top(wk)
           best == Select(t, f.node)
       IN /\ f.pc = "select"
          /\ IF best = nilNode \/ ~InArena(t, best)
               THEN phase' = "panic" /\ workers' = workers
             ELSE IF NodeOf(t, best).move \notin Moves
               THEN phase' = phase /\ workers' = [workers EXCEPT ![w] = Fail(wk)]
             ELSE IF ~Check(wk.g, NodeOf(t, best).move)
               THEN phase' = "panic" /\ workers' = workers
             ELSE /\ phase' = phase
                  /\ workers' = [workers EXCEPT ![w] =
                       [stack |-> Append(
                           SubSeq(wk.stack, 1, Len(wk.stack) - 1)
                             \o <<[f EXCEPT !.pc = "wait", !.next = best,
                                            !.nextgen = t.gen]>>,
                           Frame(best, f.depth)),
                        g |-> Apply(wk.g, NodeOf(t, best).move),
                        err |-> FALSE]]
    /\ UNCHANGED <<t, result, searches, trace, driver>>

\* next.Update(value), line 570: n.accumulate(score)
UpdateAccumulate(w) ==
    /\ phase = "running"
    /\ workers[w].stack # <<>>
    /\ LET wk == workers[w]
           f == Top(wk)
       IN /\ f.pc = "accumulate"
          /\ t' = IF f.nextgen = t.gen
                    THEN SetNode(t, f.next, accumulate(NodeOf(t, f.next), f.v))
                    ELSE t
          /\ workers' = [workers EXCEPT ![w] = SetTop(wk, [f EXCEPT !.pc = "visit"])]
    /\ UNCHANGED <<phase, result, searches, trace, driver>>

\* a faulty variant of UpdateVisits: value is returned as it is
UpdateVisitsSameSign(w) ==
    /\ phase = "running"
    /\ workers[w].stack # <<>>
    /\ LET wk == workers[w]
           f == Top(wk)
       IN /\ f.pc = "visit"
          /\ t' = IF f.nextgen = t.gen
                    THEN SetNode(t, f.next, visit(NodeOf(t, f.next)))
                    ELSE t
          /\ workers' = [workers EXCEPT ![w] = Return(wk, f.v)]
    /\ UNCHANGED <<phase, result, searches, trace, driver>>

\* next.Update(value), line 570: n.visits++, and the return of line 571
UpdateVisits(w) ==
    /\ phase = "running"
    /\ workers[w].stack # <<>>
    /\ LET wk == workers[w]
           f == Top(wk)
       IN /\ f.pc = "visit"
          /\ t' = IF f.nextgen = t.gen
                    THEN SetNode(t, f.next, visit(NodeOf(t, f.next)))
                    ELSE t
          /\ workers' = [workers EXCEPT ![w] = Return(wk, RatNeg(f.v))]
    /\ UNCHANGED <<phase, result, searches, trace, driver>>

\* the state after Search returned r
Returned(r) ==
    /\ t' = r.e
    /\ phase' = Phase(r.e, "idle")
    /\ result' = <<[move |-> r.move, err |-> r.err, state |-> t.current,
                    sims |-> t.conf.NumSimulation]>>

\* a faulty variant of SearchReturn: eg.Wait() returns with the first
\* simulation that has returned
SearchReturnEarly ==
    /\ phase = "running"
    /\ \E w \in DOMAIN workers : workers[w].stack = <<>>
    /\ \E idx \in BestIndices(t) :
         Returned(finishSearch(t, \E w \in DOMAIN workers : workers[w].err, idx))
    /\ workers' = <<>>
    /\ UNCHANGED <<searches, trace, driver>>

\* a faulty variant of SearchReturn: Search does not wait for the
\* simulations, it goes on as soon as one of them has returned
SearchReturnNoWait ==
    /\ phase = "running"
    /\ \E w \in DOMAIN workers : workers[w].stack = <<>>
    /\ \E idx \in BestIndices(t) :
         Returned(finishSearch(t, \E w \in DOMAIN workers : workers[w].err, idx))
    /\ workers' = workers
    /\ UNCHANGED <<searches, trace, driver>>

\* Search, lines 495-512, once every simulation has returned
SearchReturn ==
    /\ phase = "running"
    /\ \A w \in DOMAIN workers : workers[w].stack = <<>>
    /\ \E idx \in BestIndices(t) :
         Returned(finishSearch(t, \E w \in DOMAIN workers : workers[w].err, idx))
    /\ workers' = <<>>
    /\ UNCHANGED <<searches, trace, driver>>

Next ==
    \/ \E m \in Moves : Play(m)
    \/ GameReset
    \/ DoReset
    \/ SearchUpdateRoot
    \/ SearchFree
    \/ \E w \in DOMAIN workers : PipelineEnter(w)
    \/ \E w \in DOMAIN workers : ExpandStart(w)
    \/ \E w \in DOMAIN workers : ExpandFind(w)
    \/ \E w \in DOMAIN workers : ExpandAlloc(w)
    \/ \E w \in DOMAIN workers : ExpandInit(w)
    \/ \E w \in DOMAIN workers : ExpandAddChild(w)
    \/ \E w \in DOMAIN workers : ExpandSetHasChild(w)
    \/ \E w \in DOMAIN workers : PipelineSelect(w)
    \/ \E w \in DOMAIN workers : UpdateAccumulate(w)
    \/ \E w \in DOMAIN workers : UpdateVisits(w)
    \/ SearchReturn

Spec == Init /\ [][Next]_vars

\* ------------------------------------- repeated concurrent Search calls
\* Search called again and again on one position by an engine whose
\* configuration starts several simulations: from the second call on the
\* goroutines of search.go:489-493 all start on a root that has children.
MaxRepeat == 2       \* Search calls in one such run

\* the temperature is read by the policies only, after the simulations
RaceConfigs == { c \in Configs : c.NumSimulation > 1 /\ c.InvTemp = 1 }

\* the samples with the noise on the last move, the one that ends the game:
\* the simulations of a later Search then meet on one child
RaceSamples == { x \in DirichletSamples : x[NumActions - 1] = One }

RaceInit ==
    /\ \E conf \in RaceConfigs, sample \in RaceSamples :
          t = NewEngine(NewGame, conf, sample)
    /\ phase = "idle"
    /\ workers = <<>>
    /\ result = <<>>
    /\ searches = 0
    /\ trace = NoTrace
    /\ driver = NoDriver

\* Search, line 481: updateRoot()
SearchAgain ==
    /\ phase = "idle"
    /\ searches < MaxRepeat
    /\ \E pick \in Picks(t) : Rooted(updateRoot(t, pick))
    /\ searches' = searches + 1
    /\ result' = <<>>
    /\ UNCHANGED <<workers, driver>>

RaceNext ==
    \/ SearchAgain
    \/ SearchFree
    \/ \E w \in DOMAIN workers : PipelineEnter(w)
    \/ \E w \in DOMAIN workers : ExpandStart(w)
    \/ \E w \in DOMAIN workers : ExpandFind(w)
    \/ \E w \in DOMAIN workers : ExpandAlloc(w)
    \/ \E w \in DOMAIN workers : ExpandInit(w)
    \/ \E w \in DOMAIN workers : ExpandAddChild(w)
    \/ \E w \in DOMAIN workers : ExpandSetHasChild(w)
    \/ \E w \in DOMAIN workers : PipelineSelect(w)
    \/ \E w \in DOMAIN workers : UpdateAccumulate(w)
    \/ \E w \in DOMAIN workers : UpdateVisits(w)
    \/ SearchReturn

RaceSpec == RaceInit /\ [][RaceNext]_vars

\* -------------------------- concurrent Search calls on a game that goes on
\* Search called by an engine whose configuration starts several
\* simulations, with moves played on the shared game between the calls
\* (arena.go:114): the later calls promote a child, put its siblings on the
\* freeables and free them before the goroutines start.

\* the arena plays a move on the game the engine shares (arena.go:114)
PlayOn(m) ==
    /\ phase = "idle"
    /\ searches < MaxRepeat
    /\ Check(t.current, m)
    /\ t' = [t EXCEPT !.current = Apply(t.current, m)]
    /\ UNCHANGED <<phase, workers, result, searches, trace, driver>>

AdvanceNext ==
    \/ \E m \in Moves : PlayOn(m)
    \/ SearchAgain
    \/ SearchFree
    \/ \E w \in DOMAIN workers : PipelineEnter(w)
    \/ \E w \in DOMAIN workers : ExpandStart(w)
    \/ \E w \in DOMAIN workers : ExpandFind(w)
    \/ \E w \in DOMAIN workers : ExpandAlloc(w)
    \/ \E w \in DOMAIN workers : ExpandInit(w)
    \/ \E w \in DOMAIN workers : ExpandAddChild(w)
    \/ \E w \in DOMAIN workers : ExpandSetHasChild(w)
    \/ \E w \in DOMAIN workers : PipelineSelect(w)
    \/ \E w \in DOMAIN workers : UpdateAccumulate(w)
    \/ \E w \in DOMAIN workers : UpdateVisits(w)
    \/ SearchReturn

AdvanceSpec == RaceInit /\ [][AdvanceNext]_vars

\* ---------------------------------------------------------------- locks
\* The locks the simulations take: the sync.RWMutex embedded in MCTS
\* (tree.go:39) and the sync.Mutex each Node holds by value (part_000:36).
\* Each call is the sequence of lock operations its code makes, in the
\* order of the code; "append" is the append of alloc and "ptr" the
\* &nodes[ptr] of nodeFromNaughty.  The state keeps, for every backing array
\* t.nodes has had, the state of the mutex of every slot: 0 when unlocked,
\* the goroutine that holds it, or Copied.
LockSims == 2        \* simulations that run the calls
MaxCalls == 2        \* calls one simulation makes

\* a mutex that append copied while it was locked: the copy is locked and
\* no goroutine unlocks it
Copied == -1

\* MCTS.nodeFromNaughty (unsafe_safe.go:6-12)
nodeFromNaughtySteps == <<"RLock", "ptr", "RUnlock">>

\* MCTS.Children (unsafe_safe.go:15-20)
ChildrenSteps == <<"RLock", "RUnlock">>

\* Node.QSA, Move, PSA, Visits, IsValid, IsActive, SetHasChild
\* (part_000:74-163)
accessorSteps == <<"NLock", "NUnlock">>

\* MCTS.alloc (tree.go:120-140)
allocSteps == <<"Lock", "append", "Unlock">>

\* MCTS.New (tree.go:89-101)
NewSteps == allocSteps \o nodeFromNaughtySteps \o <<"NLock", "NUnlock">>

\* Node.AddChild (part_000:58-63)
AddChildSteps == <<"Lock", "Unlock">>

\* next = t.nodeFromNaughty(...), next.Move() and, after the recursion,
\* next.Update(value): accumulate and n.visits++ (search.go:559-570,
\* part_000:66-71, 236-241)
UpdateSteps ==
    nodeFromNaughtySteps \o accessorSteps \o accessorSteps \o accessorSteps

\* Node.Select on a node with one child (part_000:189-233): Children, the
\* loop of IsValid and Visits, the loop of IsActive, Visits, QSA and PSA
SelectSteps ==
    ChildrenSteps
      \o nodeFromNaughtySteps \o accessorSteps \o accessorSteps
      \o nodeFromNaughtySteps \o accessorSteps \o accessorSteps
      \o accessorSteps \o accessorSteps

\* the calls of a simulation and their lock operations
Calls ==
    [New |-> NewSteps, AddChild |-> AddChildSteps, Update |-> UpdateSteps,
     Select |-> SelectSteps, Children |-> ChildrenSteps,
     nodeFromNaughty |-> nodeFromNaughtySteps]

\* the arena between two calls: slots 0 .. n - 1 in an array of the
\* capacity InitialCap, every mutex unlocked
LockArena(n) ==
    [mu |-> [w |-> 0, r |-> {}], nlen |-> n, acap |-> InitialCap, gen |-> 0,
     nlock |-> <<[i \in 1 .. n |-> 0]>>]

\* a simulation: the lock operations left of its call, the handle and the
\* array of the node reference it has, the calls left
LockWorker ==
    [prog |-> <<>>, h |-> 0, ref |-> 0, calls |-> MaxCalls]

LockInit ==
    /\ \E n \in {InitialCap - 1, InitialCap} : t = LockArena(n)
    /\ phase = "running"
    /\ workers = [w \in 1 .. LockSims |-> LockWorker]
    /\ result = <<>>
    /\ searches = 0
    /\ trace = NoTrace
    /\ driver = NoDriver

\* the lock operation simulation w is at
AtStep(w, ops) == workers[w].prog # <<>> /\ Head(workers[w].prog) \in ops

\* simulation w is at a lock acquisition
Waiting(w) == AtStep(w, {"Lock", "RLock", "NLock"})

\* simulation w holds the lock of the tree or the mutex of a node
Holding(w) ==
    \/ t.mu.w = w
    \/ w \in t.mu.r
    \/ \E g \in 1 .. Len(t.nlock) : \E i \in 1 .. Len(t.nlock[g]) :
          t.nlock[g][i] = w

\* the lock simulation w is at can be taken
Free(w) ==
    \/ AtStep(w, {"Lock"}) /\ t.mu.w = 0 /\ t.mu.r = {}
    \/ AtStep(w, {"RLock"}) /\ t.mu.w = 0
    \/ AtStep(w, {"NLock"})
         /\ t.nlock[workers[w].ref + 1][workers[w].h + 1] = 0

Advance(w) == workers' = [workers EXCEPT ![w].prog = Tail(@)]

\* a simulation starts a call on the first or the last node of the arena
Call(w) ==
    /\ workers[w].prog = <<>>
    /\ workers[w].calls > 0
    /\ \E c \in DOMAIN Calls, k \in {0, t.nlen - 1} :
          workers' = [workers EXCEPT ![w] =
                        [prog |-> Calls[c], h |-> k, ref |-> @.ref,
                         calls |-> @.calls - 1]]
    /\ UNCHANGED <<t, phase, result, searches, trace, driver>>

\* Lock, RLock of the tree or Lock of a node returns
Acquire(w) ==
    /\ Waiting(w)
    /\ Free(w)
    /\ t' = IF AtStep(w, {"Lock"}) THEN [t EXCEPT !.mu.w = w]
            ELSE IF AtStep(w, {"RLock"}) THEN [t EXCEPT !.mu.r = @ \cup {w}]
            ELSE [t EXCEPT !.nlock[workers[w].ref + 1][workers[w].h + 1] = w]
    /\ Advance(w)
    /\ UNCHANGED <<phase, result, searches, trace, driver>>

\* Unlock, RUnlock of the tree or Unlock of a node
Release(w) ==
    /\ AtStep(w, {"Unlock", "RUnlock", "NUnlock"})
    /\ t' = IF AtStep(w, {"Unlock"}) THEN [t EXCEPT !.mu.w = 0]
            ELSE IF AtStep(w, {"RUnlock"}) THEN [t EXCEPT !.mu.r = @ \ {w}]
            ELSE [t EXCEPT !.nlock[workers[w].ref + 1][workers[w].h + 1] = 0]
    /\ Advance(w)
    /\ UNCHANGED <<phase, result, searches, trace, driver>>

\* the nodes as append leaves them: in place while there is room, else
\* copied, mutexes and all, into a new array
Appended(e) ==
    IF e.nlen < e.acap
      THEN [e EXCEPT !.nlen = @ + 1,
                     !.nlock[e.gen + 1] = Append(@, 0)]
      ELSE [e EXCEPT !.nlen = @ + 1,
                     !.acap = GrowCap(@),
                     !.gen = @ + 1,
                     !.nlock = Append(@,
                        [i \in 1 .. e.nlen + 1 |->
                            IF i > e.nlen THEN 0
                            ELSE IF e.nlock[e.gen + 1][i] = 0 THEN 0
                            ELSE Copied])]

\* alloc with an empty free list (tree.go:124-135): t.nodes = append(...)
AppendNode(w) ==
    /\ AtStep(w, {"append"})
    /\ t' = Appended(t)
    /\ workers' = [workers EXCEPT ![w].prog = Tail(@), ![w].h = t.nlen]
    /\ UNCHANGED <<phase, result, searches, trace, driver>>

\* nodeFromNaughty (unsafe_safe.go:9-10): retVal := &nodes[int(ptr)]
TakePointer(w) ==
    /\ AtStep(w, {"ptr"})
    /\ workers' = [workers EXCEPT ![w].prog = Tail(@), ![w].ref = t.gen]
    /\ UNCHANGED <<t, phase, result, searches, trace, driver>>

LockNext ==
    \/ \E w \in DOMAIN workers : Call(w)
    \/ \E w \in DOMAIN workers : Acquire(w)
    \/ \E w \in DOMAIN workers : Release(w)
    \/ \E w \in DOMAIN workers : AppendNode(w)
    \/ \E w \in DOMAIN workers : TakePointer(w)

LockSpec == LockInit /\ [][LockNext]_vars

\* the scheduler lets every goroutine that can run go on, and a goroutine
\* that waits for a lock gets it if the lock is free again and again
LockFairness ==
    \A w \in 1 .. LockSims :
        /\ WF_vars(Call(w))
        /\ SF_vars(Acquire(w))
        /\ WF_vars(Release(w))
        /\ WF_vars(AppendNode(w))
        /\ WF_vars(TakePointer(w))

LockFairSpec == LockSpec /\ LockFairness

\* ------------------------------------------- a Search three plies deep
\* One Search with one simulation more than the configurations above have
\* and MaxDepth = MaxPly, taken up when
\* the first goroutine has expanded the root and returned and the other
\* two have not yet run: the simulations that follow can go through the
\* root and a child into a grandchild.
DeepConf ==
    [PUCT |-> One, RandomCount |-> 1, InvTemp |-> 1, MaxDepth |-> MaxPly,
     NumSimulation |-> MaxSimulation + 1]

\* the loop of expandAndSimulate over the sorted pairs (search.go:623-629),
\* run by one goroutine alone
RECURSIVE Expanded(_, _, _, _)
Expanded(e, h, list, i) ==
    IF i > Len(list) \/ e.panicked THEN e
    ELSE IF findChild(e, h, list[i].Move) # nilNode THEN Expanded(e, h, list, i + 1)
    ELSE LET a == New(e, list[i].Move, list[i].Score) IN
         Expanded([a.e EXCEPT !.children[h + 1] = Append(@, a.h),
                              !.nodes[h + 1].hasChildren = TRUE],
                  h, list, i + 1)

DeepInit ==
    /\ \E sample \in DirichletSamples :
          LET u == updateRoot(NewEngine(NewGame, DeepConf, sample), 0)
              e == freeAll(u.e, u.e.freeables)
              list == SortByScore(Noised(e, LegalPairs(e.current,
                                                      InferPolicy(e.current), 0)))
              x == Expanded(e, e.root, list, 1)
          IN /\ t = x
             /\ workers = [w \in 1 .. x.conf.NumSimulation |->
                             IF w = 1 THEN [Worker(x) EXCEPT !.stack = <<>>]
                             ELSE Worker(x)]
             /\ trace = [NoTrace EXCEPT !.popped = u.popped, !.steps = u.steps,
                                        !.reused = u.ok]
    /\ phase = "running"
    /\ result = <<>>
    /\ searches = 1
    /\ driver = NoDriver

DeepNext ==
    \/ \E w \in DOMAIN workers : PipelineEnter(w)
    \/ \E w \in DOMAIN workers : ExpandStart(w)
    \/ \E w \in DOMAIN workers : ExpandFind(w)
    \/ \E w \in DOMAIN workers : ExpandAlloc(w)
    \/ \E w \in DOMAIN workers : ExpandInit(w)
    \/ \E w \in DOMAIN workers : ExpandAddChild(w)
    \/ \E w \in DOMAIN workers : ExpandSetHasChild(w)
    \/ \E w \in DOMAIN workers : PipelineSelect(w)
    \/ \E w \in DOMAIN workers : UpdateAccumulate(w)
    \/ \E w \in DOMAIN workers : UpdateVisits(w)
    \/ SearchReturn

DeepSpec == DeepInit /\ [][DeepNext]_vars

\* ------------------------------------------------ Select on any children
\* Node.Select and its call in pipeline, applied to a root whose three
\* children have any status, visits and qsa a Node can hold (part_000:
\* 10-18, 36-41): the root is expanded as one goroutine expands it, then
\* the fields Select reads are drawn.
SelectConf ==
    [PUCT |-> One, RandomCount |-> 1, InvTemp |-> 1, MaxDepth |-> MaxPly - 1,
     NumSimulation |-> 1]

\* the engine after updateRoot, the free of the freeables and the
\* expansion of the root (search.go:481-485, 623-629), one per sample
SelectRoots ==
    { LET u == updateRoot(NewEngine(NewGame, SelectConf, sample), 0)
          e == freeAll(u.e, u.e.freeables)
          list == SortByScore(Noised(e, LegalPairs(e.current,
                                                  InferPolicy(e.current), 0)))
      IN [e |-> Expanded(e, e.root, list, 1), popped |-> u.popped,
          steps |-> u.steps, ok |-> u.ok] : sample \in DirichletSamples }

SelectInit ==
    /\ \E r \in SelectRoots :
          LET x == r.e
              kids == Children(x, x.root)
          IN \E st \in [1 .. Len(kids) -> {Invalid, Active, Pruned}],
                vs \in [1 .. Len(kids) -> {1, 2}],
                qs \in [1 .. Len(kids) -> {Zero, <<1, 2>>}] :
               /\ t = [x EXCEPT !.nodes =
                         [i \in DOMAIN x.nodes |->
                            IF \E k \in 1 .. Len(kids) : kids[k] + 1 = i
                              THEN LET k == CHOOSE k \in 1 .. Len(kids) : kids[k] + 1 = i
                                   IN [x.nodes[i] EXCEPT !.status = st[k],
                                                         !.visits = vs[k],
                                                         !.qsa = qs[k]]
                              ELSE x.nodes[i]]]
               /\ workers = <<Worker(x)>>
               /\ trace = [NoTrace EXCEPT !.popped = r.popped, !.steps = r.steps,
                                          !.reused = r.ok]
    /\ phase = "running"
    /\ result = <<>>
    /\ searches = 1
    /\ driver = NoDriver

SelectNext ==
    \/ \E w \in DOMAIN workers : PipelineEnter(w)
    \/ \E w \in DOMAIN workers : PipelineSelect(w)

SelectSpec == SelectInit /\ [][SelectNext]_vars

\* ------------------------------------------------- building an engine
\* the Config values a caller can write (tree.go:17-25), RandomTemperature
\* as it stands in the struct
UserConfigs ==
    { [PUCT |-> p, RandomCount |-> 1, RandomTemperature |-> rt,
       MaxDepth |-> md, NumSimulation |-> ns] :
        p \in {<<-1, 1>>, Zero, <<1, 2>>, One}, rt \in {Zero, <<1, 2>>, One},
        md \in {MaxPly - 2, MaxPly - 1}, ns \in -1 .. MaxSimulation }

\* Config.IsValid (tree.go:33-35)
IsValid(c) == RatLess(Zero, c.RandomTemperature) /\ c.NumSimulation > 0

\* before the constructor is called t holds its argument only
BuildInit ==
    /\ \E c \in UserConfigs : t = [conf |-> c]
    /\ phase = "config"
    /\ workers = <<>>
    /\ result = <<>>
    /\ searches = 0
    /\ trace = NoTrace
    /\ driver = NoDriver

\* agogo.New (agogo.go:529-552): panic unless MCTSConf.IsValid(), then
\* MakeArena, which calls mcts.New
AZNew ==
    /\ phase = "config"
    /\ IF ~IsValid(t.conf)
         THEN phase' = "panic" /\ t' = t
         ELSE /\ phase' = "idle"
              /\ \E sample \in DirichletSamples :
                    t' = NewEngine(NewGame, t.conf, sample)
    /\ UNCHANGED <<workers, result, searches, trace, driver>>

\* mcts.New called with the Config as it is (tree.go:61-86), as MakeArena
\* does (arena.go:49, 55)
MCTSNew ==
    /\ phase = "config"
    /\ phase' = "idle"
    /\ \E sample \in DirichletSamples : t' = NewEngine(NewGame, t.conf, sample)
    /\ UNCHANGED <<workers, result, searches, trace, driver>>

BuildNext == AZNew \/ MCTSNew

BuildSpec == BuildInit /\ [][BuildNext]_vars


\* ------------------------------------------------- the budgeted lineage
\* Search with an iteration budget and a timeout (search.go:23-436), over
\* the Node of node.go.  One Search on a fresh engine is followed.  A
\* goroutine of doSearch is [pc, depth, g, stack, res, at]: depth is
\* s.depth of the searchState it holds, g the clone it plays on, stack the
\* activations of pipeline, at the value of iter when pipeline was called.  An activation runs in two steps, the part
\* before the recursive call (search.go:194-236) and the part after it
\* (search.go:236-245).

\* Result (search.go:33-47): a rational, or a NaN <<k, 0>>; k = 0 is
\* noResult, k = 1 its negation (the sign bit set), k = 2 and k = 3 a NaN
\* of the arithmetic and its negation.
noResult == <<0, 0>>
isNullResult(r) == r = noResult
ResultNeg(r) ==
    IF ~IsNaN(r) THEN RatNeg(r)
    ELSE IF r[1] = 0 THEN <<1, 0>>
    ELSE IF r[1] = 1 THEN <<0, 0>>
    ELSE IF r[1] = 2 THEN <<3, 0>>
    ELSE <<2, 0>>

\* Config of the lineage: PUCT, Budget and the maxDepth of search.go:108
BudgetConfigs ==
    { [PUCT |-> One, Budget |-> b, MaxDepth |-> md] :
        b \in 1 .. MaxBudget, md \in {MaxPly - 1, MaxPly} }

\* the iterations followed: the timeout has fired by then
MaxIter == MaxBudget + 2

\* defaultMinPsaRatio (node.go:19): 2 as a float32
defaultMinPsaRatio == FromInt(2)

\* the positions a budgeted Search is called on
BudgetPositions ==
    { Apply(NewGame, m) : m \in Moves } \cup {NewGame}

\* the engine (part_002:70-92) with the fields running and playouts that
\* search.go:68 and search.go:115 use
BudgetEngine(g, conf) ==
    [nodes |-> <<>>, nlen |-> 0, acap |-> InitialCap, gen |-> 0,
     children |-> <<>>, freelist |-> <<>>, freeables |-> <<>>,
     root |-> nilNode, current |-> g, prev |-> <<>>, nc |-> 0,
     conf |-> conf, running |-> FALSE, playouts |-> 0, panicked |-> FALSE]

\* Node of node.go:34-47 as the arena first holds it
BudgetFreshNode ==
    [move |-> 0, visits |-> 0, status |-> Invalid, qsa |-> Zero,
     minPSARatioChildren |-> defaultMinPsaRatio, psa |-> Zero, value |-> Zero]

\* alloc (part_002:140-160)
BudgetAlloc(e) ==
    LET l == Len(e.freelist) IN
    IF l = 0
      THEN LET grow == e.nlen = e.acap IN
           [e |-> [e EXCEPT !.nodes = Append(e.nodes, BudgetFreshNode),
                            !.nlen = e.nlen + 1,
                            !.acap = IF grow THEN GrowCap(e.acap) ELSE e.acap,
                            !.gen = IF grow THEN e.gen + 1 ELSE e.gen,
                            !.children = Append(e.children, <<>>)],
            h |-> e.nlen]
      ELSE [e |-> [e EXCEPT !.freelist = SubSeq(e.freelist, 1, l - 1)],
            h |-> e.freelist[l]]

\* t.New(move, score, value) of search.go:301 and search.go:419
\* (part_002:95-107, and the value of the call)
BudgetNewAt(a, move, score, value) ==
    IF ~InArena(a.e, a.h) THEN [e |-> Panic(a.e), h |-> a.h]
    ELSE [e |-> SetNode(a.e, a.h,
                  [NodeOf(a.e, a.h) EXCEPT !.move = move, !.visits = 1,
                                           !.status = Active, !.qsa = Zero,
                                           !.psa = score, !.value = value]),
          h |-> a.h]

BudgetNew(e, move, score, value) == BudgetNewAt(BudgetAlloc(e), move, score, value)

\* Node.reset (node.go:245-253)
BudgetNodeReset(n) ==
    [n EXCEPT !.move = -1, !.visits = 0, !.status = 0, !.qsa = Zero,
              !.minPSARatioChildren = defaultMinPsaRatio, !.psa = Zero,
              !.value = Zero]

\* free (part_002:167-173)
BudgetFree(e, n) ==
    IF ~InArena(e, n) THEN Panic(e)
    ELSE [e EXCEPT !.children[n + 1] = <<>>,
                   !.freelist = Append(e.freelist, n),
                   !.nodes[n + 1] = BudgetNodeReset(e.nodes[n + 1])]

RECURSIVE BudgetFreeAll(_, _)
BudgetFreeAll(e, fs) ==
    IF fs = <<>> \/ e.panicked THEN e
    ELSE BudgetFreeAll(BudgetFree(e, Head(fs)), Tail(fs))

\* Node.HasChildren and Node.IsExpandable (node.go:129-132)
HasChildren(n) == ~RatLess(One, n.minPSARatioChildren)
IsExpandable(n, minPsaRatio) == RatLess(minPsaRatio, n.minPSARatioChildren)

\* searchState.minPsaRatio (search.go:77-86)
minPsaRatio(e) ==
    IF 100 * e.nc > 95 * MAXTREESIZE THEN <<1, 100>>
    ELSE IF 2 * e.nc > MAXTREESIZE THEN <<1, 1000>>
    ELSE Zero

\* Node.accumulate and Node.Update (node.go:70-76, 210-216): one critical
\* section of the tree lock; a NaN score makes the mean a NaN
BudgetUpdate(n, score) ==
    [n EXCEPT !.qsa = IF IsNaN(score) \/ IsNaN(n.qsa) THEN <<2, 0>>
                      ELSE RatDiv(RatAdd(RatMul(FromInt(n.visits), n.qsa), score),
                                  FromInt(n.visits + 1)),
              !.visits = n.visits + 1]

\* Infer of the lineage: the NaN of the evaluator is not noResult
BudgetInferValue(g) == IF IsNaN(InferValue(g)) THEN <<2, 0>> ELSE InferValue(g)

\* the scores of the legal moves, renormalised or uniform (search.go:262-283)
BudgetScores(g) ==
    LET pr == Priors(LegalPairs(g, InferPolicy(g), 0)) IN
    [k \in 1 .. Len(pr) |-> [Move |-> pr[k].Move, Score |-> pr[k].Score]]

\* the loop of search.go:295-305 from pair i on: [e, skipped]
RECURSIVE BudgetAddChildren(_, _, _, _, _, _, _)
BudgetAddChildren(e, h, list, i, newMinPsa, oldMinPsa, value) ==
    IF i > Len(list) \/ e.panicked THEN [e |-> e, skipped |-> FALSE]
    ELSE IF RatLess(list[i].Score, newMinPsa)
      THEN [BudgetAddChildren(e, h, list, i + 1, newMinPsa, oldMinPsa, value)
              EXCEPT !.skipped = TRUE]
    ELSE IF RatLess(list[i].Score, oldMinPsa) /\ findChild(e, h, list[i].Move) = nilNode
      THEN LET n == BudgetNew(e, list[i].Move, list[i].Score, value) IN
           BudgetAddChildren(
             IF n.e.panicked THEN n.e
             ELSE [n.e EXCEPT !.children[h + 1] = Append(@, n.h)],
             h, list, i + 1, newMinPsa, oldMinPsa, value)
    ELSE BudgetAddChildren(e, h, list, i + 1, newMinPsa, oldMinPsa, value)

\* the end of expandAndSimulate (search.go:307-313) on the engine a.e
BudgetExpanded(a, h, ratio, value) ==
    IF a.e.panicked THEN [e |-> a.e, value |-> value, ok |-> TRUE]
    ELSE [e |-> [a.e EXCEPT !.nodes[h + 1].minPSARatioChildren =
                               IF a.skipped THEN ratio ELSE Zero],
          value |-> value, ok |-> TRUE]

\* expandAndSimulate (search.go:248-314): [e, value, ok]
BudgetExpandAndSimulate(e, h, g, ratio) ==
    IF ~InArena(e, h) THEN [e |-> Panic(e), value |-> Zero, ok |-> FALSE]
    ELSE IF ~IsExpandable(NodeOf(e, h), ratio)
      THEN [e |-> e, value |-> Zero, ok |-> FALSE]
    ELSE IF Len(BudgetScores(g)) = 0
      THEN [e |-> e, value |-> BudgetInferValue(g), ok |-> TRUE]
    ELSE BudgetExpanded(
           BudgetAddChildren(e, h, SortByScore(BudgetScores(g)), 1,
              RatMul(SortByScore(BudgetScores(g))[1].Score, ratio),
              RatMul(SortByScore(BudgetScores(g))[1].Score,
                     NodeOf(e, h).minPSARatioChildren),
              BudgetInferValue(g)),
           h, ratio, BudgetInferValue(g))

\* Node.Select (node.go:147-207): best starts as the zero handle and a
\* NaN score never compares greater
BudgetSelect(e, h) ==
    LET kids == Children(e, h)
        valid == { i \in 1 .. Len(kids) : NodeOf(e, kids[i]).status # Invalid }
        Sum[i \in 0 .. Len(kids)] ==
            IF i = 0 THEN 0
            ELSE Sum[i - 1] + (IF i \in valid THEN NodeOf(e, kids[i]).visits ELSE 0)
        q(i) == IF NodeOf(e, kids[i]).visits > 0 THEN NodeOf(e, kids[i]).qsa
                ELSE NodeOf(e, h).value
        usa(i) ==
            [q |-> q(i),
             c |-> RatDiv(RatMul(e.conf.PUCT, NodeOf(e, kids[i]).psa),
                          FromInt(1 + NodeOf(e, kids[i]).visits))]
        able == { i \in 1 .. Len(kids) :
                    NodeOf(e, kids[i]).status = Active /\ ~IsNaN(q(i)) }
        Best[i \in 0 .. Len(kids)] ==
            IF i = 0 THEN 0
            ELSE IF i \notin able THEN Best[i - 1]
            ELSE IF Best[i - 1] = 0 THEN i
            ELSE IF ScoreGreater(usa(i), usa(Best[i - 1]), Sum[Len(kids)])
                   THEN i ELSE Best[i - 1]
    IN IF Best[Len(kids)] = 0 THEN 0 ELSE kids[Best[Len(kids)]]

\* the first legal move (search.go:417-422), or none
FirstLegal(g) ==
    IF LegalMoves(g) = {} THEN {}
    ELSE {CHOOSE m \in LegalMoves(g) : \A k \in LegalMoves(g) : m <= k}

\* the end of updateRoot (search.go:426-434)
BudgetFinishRoot(e) ==
    IF e.panicked THEN e
    ELSE IF ~InArena(e, e.root) THEN Panic(e)
    ELSE IF Len(Children(e, e.root)) = 0
      THEN [e EXCEPT !.prev = <<>>, !.nc = countChildren(e, e.root),
                     !.nodes[e.root + 1].minPSARatioChildren = defaultMinPsaRatio]
      ELSE [e EXCEPT !.prev = <<>>, !.nc = countChildren(e, e.root)]

\* updateRoot after newRootState returned r (search.go:415-423)
BudgetRootAfter(r) ==
    IF r.e.panicked THEN r.e
    ELSE IF r.ok /\ r.e.root # nilNode THEN BudgetFinishRoot(r.e)
    ELSE IF FirstLegal(r.e.current) = {} THEN BudgetFinishRoot(r.e)
    ELSE LET n == BudgetNew(r.e, CHOOSE m \in FirstLegal(r.e.current) : TRUE,
                            Zero, Zero)
         IN BudgetFinishRoot([n.e EXCEPT !.root = n.h])

\* updateRoot (search.go:413-436)
BudgetUpdateRoot(e) == BudgetRootAfter(newRootState([e EXCEPT !.freeables = <<>>]))

\* prepareRoot after its expandAndSimulate returned x (search.go:355-359)
BudgetPrepared(x, hadChildren) ==
    IF x.e.panicked \/ hadChildren THEN x.e
    ELSE SetNode(x.e, x.e.root, BudgetUpdate(NodeOf(x.e, x.e.root), x.value))

\* prepareRoot (search.go:346-360)
prepareRoot(e) ==
    IF e.panicked THEN e
    ELSE IF ~InArena(e, e.root) THEN Panic(e)
    ELSE BudgetPrepared(
           IF IsExpandable(NodeOf(e, e.root), Zero)
             THEN BudgetExpandAndSimulate(e, e.root, e.current, minPsaRatio(e))
             ELSE [e |-> e, value |-> Zero, ok |-> FALSE],
           Len(Children(e, e.root)) > 0)

\* an activation of pipeline on node h
BudgetFrame(h) == [node |-> h, pc |-> "enter", ngen |-> 0, retVal |-> noResult]

\* a goroutine of doSearch at its select statement (search.go:153-156)
BudgetWorker ==
    [pc |-> "recv", depth |-> 0, g |-> NewGame, stack |-> <<>>, res |-> noResult,
     at |-> 0]

\* the activation on top returns r to its caller, or to doSearch
BudgetReturn(wk, r) ==
    LET n == Len(wk.stack) IN
    IF n = 1 THEN [wk EXCEPT !.stack = <<>>, !.pc = "count", !.res = r]
    ELSE [wk EXCEPT !.stack =
            Append(SubSeq(wk.stack, 1, n - 2),
                   [wk.stack[n - 1] EXCEPT !.retVal = r, !.pc = "back"])]

BudgetInit ==
    /\ \E conf \in BudgetConfigs, g \in BudgetPositions : t = BudgetEngine(g, conf)
    /\ phase = "idle"
    /\ workers = <<>>
    /\ result = <<>>
    /\ searches = 0
    /\ trace = NoTrace
    /\ driver = NoDriver

\* Search, lines 89-120: the root, the searchStates into ch, the flag,
\* the goroutines
BudgetSearchStart ==
    /\ phase = "idle"
    /\ searches = 0
    /\ LET e == prepareRoot(BudgetFreeAll(BudgetUpdateRoot(t),
                                          BudgetUpdateRoot(t).freeables))
       IN /\ t' = IF e.panicked THEN e ELSE [e EXCEPT !.running = TRUE]
          /\ phase' = Phase(e, "running")
          /\ workers' = IF e.panicked THEN <<>>
                        ELSE [w \in 1 .. NumCPU |-> BudgetWorker]
          /\ driver' = IF e.panicked THEN driver
                       ELSE [iter |-> 0, ch |-> [i \in 1 .. NumCPU |-> 0],
                             cancelled |-> FALSE]
    /\ searches' = searches + 1
    /\ UNCHANGED <<result, trace>>

\* doSearch, lines 156-159: a searchState from ch, the clone, the call
BudgetRecv(w) ==
    /\ phase = "running"
    /\ workers[w].pc = "recv"
    /\ driver.ch # <<>>
    /\ driver.iter < MaxIter
    /\ workers' = [workers EXCEPT ![w] =
          [pc |-> "sim", depth |-> Head(driver.ch), g |-> Clone(t.current),
           stack |-> <<BudgetFrame(t.root)>>, res |-> noResult,
           at |-> driver.iter]]
    /\ driver' = [driver EXCEPT !.ch = Tail(driver.ch)]
    /\ UNCHANGED <<t, phase, result, searches, trace>>

\* the recursive call of search.go:231-236 on the child next
BudgetRecurse(w, e, f, next) ==
    IF ~InArena(e, next)
      THEN /\ phase' = "panic"
           /\ workers' = workers
    ELSE IF ~Check(workers[w].g, NodeOf(e, next).move)
      THEN /\ phase' = Phase(e, phase)
           /\ workers' = [workers EXCEPT ![w] =
                 [workers[w] EXCEPT !.depth = @ + 1,
                                    !.stack[Len(workers[w].stack)] =
                                        [f EXCEPT !.pc = "back"]]]
    ELSE /\ phase' = Phase(e, phase)
         /\ workers' = [workers EXCEPT ![w] =
               [workers[w] EXCEPT
                  !.depth = @ + 1,
                  !.g = Apply(workers[w].g, NodeOf(e, next).move),
                  !.stack = Append(
                      SubSeq(workers[w].stack, 1, Len(workers[w].stack) - 1)
                        \o <<[f EXCEPT !.pc = "wait"]>>,
                      BudgetFrame(next))]]

\* pipeline, lines 219-238, after the expansion returned x; f has the
\* generation of the reference n of line 216
BudgetAfterExpand(w, x, f, hadChildren) ==
    /\ t' = x.e
    /\ IF x.e.panicked
         THEN phase' = "panic" /\ workers' = workers
       ELSE IF HasChildren(NodeOf(x.e, f.node)) /\ ~(~hadChildren /\ x.ok)
         THEN BudgetRecurse(w, x.e, f, BudgetSelect(x.e, f.node))
       ELSE /\ phase' = phase
            /\ workers' = [workers EXCEPT ![w] =
                  [workers[w] EXCEPT
                     !.depth = @ + 1,
                     !.stack[Len(workers[w].stack)] =
                         [f EXCEPT !.pc = "back",
                                   !.retVal = IF ~hadChildren /\ x.ok
                                                THEN x.value ELSE noResult]]]

\* pipeline, lines 194-236: up to the recursive call
BudgetDescend(w) ==
    /\ phase = "running"
    /\ workers[w].pc = "sim"
    /\ workers[w].stack # <<>>
    /\ Top(workers[w]).pc = "enter"
    /\ IF workers[w].depth + 1 > t.conf.MaxDepth
         THEN /\ workers' = [workers EXCEPT ![w] = BudgetReturn(workers[w], noResult)]
              /\ UNCHANGED <<t, phase>>
       ELSE IF Ended(workers[w].g).ended
         THEN /\ workers' = [workers EXCEPT ![w] =
                    BudgetReturn([workers[w] EXCEPT !.depth = @ + 1],
                                 EndedValue(workers[w].g))]
              /\ UNCHANGED <<t, phase>>
       ELSE IF ~InArena(t, Top(workers[w]).node)
         THEN /\ phase' = "panic"
              /\ UNCHANGED <<t, workers>>
       ELSE IF IsExpandable(NodeOf(t, Top(workers[w]).node), Zero)
                 /\ t.nc < MAXTREESIZE
         THEN BudgetAfterExpand(w,
                 BudgetExpandAndSimulate(t, Top(workers[w]).node, workers[w].g,
                                         minPsaRatio(t)),
                 [Top(workers[w]) EXCEPT !.ngen = t.gen],
                 HasChildren(NodeOf(t, Top(workers[w]).node)))
       ELSE BudgetAfterExpand(w, [e |-> t, value |-> Zero, ok |-> FALSE],
                 [Top(workers[w]) EXCEPT !.ngen = t.gen], TRUE)
    /\ UNCHANGED <<result, searches, trace, driver>>

\* pipeline, lines 236-245: the value of the call, n.Update through the
\* reference of line 216, the return
BudgetBackprop(w) ==
    /\ phase = "running"
    /\ workers[w].pc = "sim"
    /\ workers[w].stack # <<>>
    /\ Top(workers[w]).pc = "back"
    /\ LET f == Top(workers[w]) IN
         /\ t' = IF ~isNullResult(f.retVal) /\ f.ngen = t.gen
                   THEN SetNode(t, f.node, BudgetUpdate(NodeOf(t, f.node), f.retVal))
                   ELSE t
         /\ workers' = [workers EXCEPT ![w] =
               BudgetReturn([workers[w] EXCEPT !.depth = @ - 1],
                            ResultNeg(f.retVal))]
    /\ UNCHANGED <<phase, result, searches, trace, driver>>

\* doSearch, lines 160-179: the playout, the iteration, the flag, the
\* searchState back into ch
BudgetCount(w) ==
    /\ phase = "running"
    /\ workers[w].pc = "count"
    /\ t' = [t EXCEPT !.playouts = IF isNullResult(workers[w].res) THEN @ ELSE @ + 1,
                      !.running = IF driver.iter + 1 > t.conf.Budget THEN FALSE ELSE @]
    /\ driver' = [driver EXCEPT
          !.iter = @ + 1,
          !.ch = Append(@, IF workers[w].depth = t.conf.MaxDepth
                             THEN 0 ELSE workers[w].depth)]
    /\ workers' = [workers EXCEPT ![w] = [workers[w] EXCEPT !.pc = "recv"]]
    /\ UNCHANGED <<phase, result, searches, trace>>

\* Search, lines 121-122: the timeout passes, cancel()
BudgetCancel ==
    /\ phase = "running"
    /\ ~driver.cancelled
    /\ driver' = [driver EXCEPT !.cancelled = TRUE]
    /\ UNCHANGED <<t, phase, workers, result, searches, trace>>

\* a faulty variant of BudgetExit: the select takes ctx.Done() only when
\* ch has nothing to receive
BudgetExitChFirst(w) ==
    /\ phase = "running"
    /\ workers[w].pc = "recv"
    /\ driver.cancelled
    /\ driver.ch = <<>>
    /\ workers' = [workers EXCEPT ![w] = [workers[w] EXCEPT !.pc = "done"]]
    /\ UNCHANGED <<t, phase, result, searches, trace, driver>>

\* doSearch, lines 180-185: ctx.Done()
BudgetExit(w) ==
    /\ phase = "running"
    /\ workers[w].pc = "recv"
    /\ driver.cancelled
    /\ workers' = [workers EXCEPT ![w] = [workers[w] EXCEPT !.pc = "done"]]
    /\ UNCHANGED <<t, phase, result, searches, trace, driver>>

\* the moves bestMove can return (search.go:316-344): Resign, or the move
\* of the child that the sort and randomizeChildren leave in front
BudgetBestMoves(e) ==
    IF Len(Children(e, e.root)) = 0 THEN {Resign}
    ELSE { NodeOf(e, Children(e, e.root)[i]).move :
             i \in 1 .. Len(Children(e, e.root)) }

\* argmax (search.go:793-803) of the policy of the evaluator
argmax(policy) ==
    CHOOSE i \in Moves :
        /\ \A k \in Moves : ~RatLess(policy[i], policy[k])
        /\ \A k \in Moves : k < i => RatLess(policy[k], policy[i])

\* Search, lines 126-147, once every goroutine has returned
BudgetSearchReturn ==
    /\ phase = "running"
    /\ driver.cancelled
    /\ \A w \in DOMAIN workers : workers[w].pc = "done"
    /\ IF ~InArena(t, t.root)
         THEN /\ phase' = "panic"
              /\ UNCHANGED <<t, result>>
       ELSE IF ~HasChildren(NodeOf(t, t.root))
         THEN /\ phase' = "idle"
              /\ t' = t
              /\ result' = <<[move |-> argmax(InferPolicy(t.current)), err |-> FALSE,
                              state |-> t.current, sims |-> driver.iter]>>
       ELSE /\ phase' = "idle"
            /\ t' = [t EXCEPT !.prev = <<Clone(t.current)>>]
            /\ \E m \in BudgetBestMoves(t) :
                  result' = <<[move |-> m, err |-> FALSE, state |-> t.current,
                               sims |-> driver.iter]>>
    /\ workers' = <<>>
    /\ UNCHANGED <<searches, trace, driver>>

BudgetNext ==
    \/ BudgetSearchStart
    \/ \E w \in DOMAIN workers : BudgetRecv(w)
    \/ \E w \in DOMAIN workers : BudgetDescend(w)
    \/ \E w \in DOMAIN workers : BudgetBackprop(w)
    \/ \E w \in DOMAIN workers : BudgetCount(w)
    \/ BudgetCancel
    \/ \E w \in DOMAIN workers : BudgetExit(w)
    \/ BudgetSearchReturn

BudgetSpec == BudgetInit /\ [][BudgetNext]_vars

\* goroutine w is inside pipeline (search.go:159), where BudgetDescend(w)
\* or BudgetBackprop(w) is its next step and no other step changes it
BudgetInPipeline(w) ==
    /\ phase = "running"
    /\ w \in DOMAIN workers
    /\ workers[w].pc = "sim"
    /\ workers[w].stack # <<>>

BudgetPipelineStep(w) ==
    BudgetInPipeline(w) /\ (workers'[w] # workers[w] \/ phase' # phase)

\* the scheduling of the budgeted Search.  A goroutine inside pipeline
\* goes on: weak fairness of its pipeline step, written with the condition
\* that enables the step.  A goroutine that has its result puts the
\* searchState back (ch has room for all of them), the select of
\* search.go:154-183, which picks at random among its ready cases, does
\* not pass over ctx.Done() for ever, and Search goes on when wg.Wait()
\* returns.
BudgetFairness ==
    /\ WF_vars(BudgetSearchReturn)
    /\ \A w \in 1 .. NumCPU :
          /\ ([]<>~BudgetInPipeline(w)) \/ ([]<><<BudgetPipelineStep(w)>>_vars)
          /\ WF_vars(BudgetCount(w))
          /\ SF_vars(BudgetExit(w))

BudgetFairSpec == BudgetSpec /\ BudgetFairness


\* ------------------------------------------------------------ properties
\* a Search has returned and nothing has run since but the game
Searched == phase = "idle" /\ result # <<>>

\* the handles of the tree under the root
Tree(e) == IF InArena(e, e.root) THEN {e.root} \cup Below(e.children, e.root) ELSE {}

\* the move of the i-th promotion of the last root update, read off the game
PlayedAt(i) ==
    Position(t.current)[MoveNumber(t.current) - Len(trace.steps) + i]

\* the handles the i-th promotion had to discard: the other children of
\* the old root and everything below them
Siblings(i) ==
    trace.steps[i].below \ ({trace.steps[i].newRoot} \cup trace.steps[i].stay)

\* C1: after a successful tree-reuse root advance by move m, the new root is
\* a node that was a child of the previous root, its move is m, and every
\* other child of the previous root and all their descendants are Invalid.
C1_RootAdvance ==
    (phase = "rooted" /\ trace.reused) =>
        /\ trace.steps # <<>> => t.root = trace.steps[Len(trace.steps)].newRoot
        /\ \A i \in 1 .. Len(trace.steps) :
              /\ \E j \in 1 .. Len(trace.steps[i].kids) :
                    trace.steps[i].kids[j] = trace.steps[i].newRoot
              /\ NodeOf(t, trace.steps[i].newRoot).move = PlayedAt(i)
              /\ \A h \in Siblings(i) : NodeOf(t, h).status = Invalid

\* a root advance that discarded a sibling together with a child of it
C1_Witness ==
    /\ phase = "rooted"
    /\ trace.reused
    /\ \E i \in 1 .. Len(trace.steps) : \E h \in Siblings(i) :
          \A j \in 1 .. Len(trace.steps[i].kids) : trace.steps[i].kids[j] # h

\* C2: every handle alloc pops from the free list refers to a slot whose
\* status is Invalid at the moment it is popped.
C2_PoppedInvalid ==
    trace.popped # <<>> => trace.popped[1] = Invalid

\* a simulation is initialising a node whose handle came off the free list
C2_Witness ==
    /\ phase = "running"
    /\ trace.popped # <<>>
    /\ \E w \in DOMAIN workers :
          /\ workers[w].stack # <<>>
          /\ Top(workers[w]).pc = "init"
          /\ Top(workers[w]).nn < t.nlen - 1

\* the sum of the visits of the active children of h
ActiveVisits(e, h) ==
    LET kids == Children(e, h)
        F[i \in 0 .. Len(kids)] ==
            IF i = 0 THEN 0
            ELSE F[i - 1] + (IF NodeOf(e, kids[i]).status = Active
                               THEN NodeOf(e, kids[i]).visits ELSE 0)
    IN F[Len(kids)]

\* C3: after any completed Search, for every expanded node n other than the
\* root, the visits of n's active children sum to at most visits(n).
C3_ChildVisits ==
    Searched =>
        \A h \in Tree(t) \ {t.root} :
            Children(t, h) # <<>> => ActiveVisits(t, h) <= NodeOf(t, h).visits

\* C4: across successive searches that reuse a subtree, the visits of a
\* node that stays in the reused subtree never fall below what they were
\* when the earlier Search ended.
C4_VisitsMonotone ==
    \A h \in DOMAIN trace.kept : NodeOf(t, h).visits >= trace.kept[h]

\* a Search on a promoted root has returned and visited a node it kept
C4_Witness ==
    /\ Searched
    /\ ~result[1].err
    /\ trace.steps # <<>>
    /\ \E h \in DOMAIN trace.kept : NodeOf(t, h).visits > trace.kept[h]

\* the improved policy as a sequence
PolicySeq(e) == [i \in 1 .. NumActions |-> e.policies[1][i - 1]]

\* C5: after every successful Search, whatever the temperature and the move
\* number, the improved policy has no negative entry and sums to 1; stated
\* for the searches whose simulations run one at a time.
C5_PolicyDistribution ==
    (Searched /\ ~result[1].err /\ t.policies # <<>> /\ result[1].sims <= 1) =>
        /\ \A m \in Moves : ~RatLess(t.policies[1][m], Zero)
        /\ RatSum(PolicySeq(t)) = One

\* the priors of a nodelist
PriorSeq(list) == [k \in 1 .. Len(list) |-> list[k].Prior]

\* C6: for every expansion with a non-empty legal move set, the priors of
\* the legal moves before the Dirichlet noise sum to 1, in the
\* renormalisation branch and in the uniform branch.
C6_PriorsSumToOne ==
    \A w \in DOMAIN workers : \A i \in DOMAIN workers[w].stack :
        workers[w].stack[i].list # <<>> =>
            RatSum(PriorSeq(workers[w].stack[i].list)) = One

\* an expansion in the uniform branch: legal moves without policy mass
C6_Witness ==
    \E w \in DOMAIN workers :
        /\ workers[w].stack # <<>>
        /\ Top(workers[w]).pc = "find"
        /\ Top(workers[w]).list # <<>>
        /\ RatSum(Scores(LegalPairs(workers[w].g, InferPolicy(workers[w].g), 0)))
             = Zero

\* C7: after Reset() the arena, the adjacency, the free list, the
\* freeables, the root handle, the previous state and the policies are
\* those of a freshly constructed engine.
C7_ResetIsFresh ==
    trace.reset =>
        /\ t.nlen = 0
        /\ \A i \in DOMAIN t.children : t.children[i] = <<>>
        /\ t.freelist = <<>>
        /\ t.freeables = <<>>
        /\ t.root = nilNode
        /\ t.prev = <<>>
        /\ t.policies = <<>>

\* C8: with NumSimulation = 0 and a state that is not terminal, Search
\* returns a legal move, or Resign when there is none, and no error.
C8_ZeroSimulations ==
    (Searched /\ result[1].sims = 0 /\ ~Ended(result[1].state).ended) =>
        /\ ~result[1].err
        /\ IF LegalMoves(result[1].state) = {}
             THEN result[1].move = Resign
             ELSE result[1].move \in LegalMoves(result[1].state)

\* C9: when the state given to Search is terminal or has no legal move,
\* Search returns Resign and no error; stated for the searches that run
\* at least one simulation.
C9_TerminalResigns ==
    (Searched /\ result[1].sims > 0 /\ LegalMoves(result[1].state) = {}) =>
        (result[1].move = Resign /\ ~result[1].err)

\* C10: after any Search the children of every expanded node have pairwise
\* distinct moves, one child per legal move, also when concurrent
\* simulations expand the same node.
C10_OneChildPerMove ==
    Searched =>
        \A h \in Tree(t) :
            \A i, j \in 1 .. Len(Children(t, h)) :
                i # j => NodeOf(t, Children(t, h)[i]).move
                           # NodeOf(t, Children(t, h)[j]).move

\* updateRoot has returned, or the freeables are drained and no simulation
\* has taken a step
RootUpdated ==
    \/ phase = "rooted"
    \/ /\ phase = "running"
       /\ \A w \in DOMAIN workers : workers[w].stack = <<Frame(t.root, 0)>>

\* C11: a tree-reuse root advance leaves the promoted subtree unchanged: for
\* the promoted child and each of its descendants, visits, qsa, psa, move,
\* status and child list are, right after updateRoot and right after the
\* draining of the freeables, what they were when the previous Search ended.
C11_PromotedUnchanged ==
    RootUpdated =>
        \A h \in DOMAIN trace.snap :
            /\ NodeOf(t, h).visits = trace.snap[h].node.visits
            /\ NodeOf(t, h).qsa = trace.snap[h].node.qsa
            /\ NodeOf(t, h).psa = trace.snap[h].node.psa
            /\ NodeOf(t, h).move = trace.snap[h].node.move
            /\ NodeOf(t, h).status = trace.snap[h].node.status
            /\ Children(t, h) = trace.snap[h].kids

\* the freeables of a root advance are drained, and the promoted child
\* has children and more than its initial visit
C11_Witness ==
    /\ phase = "running"
    /\ \A w \in DOMAIN workers : workers[w].stack = <<Frame(t.root, 0)>>
    /\ trace.steps # <<>>
    /\ t.freeables # <<>>
    /\ t.root \in DOMAIN trace.snap
    /\ trace.snap[t.root].kids # <<>>
    /\ trace.snap[t.root].node.visits > 1

\* C12: in the budgeted Search, once the iteration counter has exceeded the
\* budget no goroutine starts a new simulation: no step takes a goroutine
\* from its select statement into pipeline.
C12_NoStartOverBudget ==
    [][\A w \in DOMAIN workers :
          (/\ phase = "running"
           /\ w \in DOMAIN workers'
           /\ workers[w].pc = "recv"
           /\ workers'[w].pc = "sim") => driver.iter <= t.conf.Budget]_vars

\* C13: in the budgeted Search, once the running flag is false a simulation
\* in flight only returns up the stack: each of its steps ends an
\* activation of pipeline and leaves the nodes and the child lists alone.
C13_StopsWhenNotRunning ==
    [][\A w \in DOMAIN workers :
          (/\ phase = "running"
           /\ ~t.running
           /\ w \in DOMAIN workers'
           /\ workers[w].pc = "sim"
           /\ workers[w].at <= t.conf.Budget
           /\ workers'[w] # workers[w])
          => /\ t'.nodes = t.nodes
             /\ t'.children = t.children
             /\ Len(workers'[w].stack) < Len(workers[w].stack)]_vars

\* C14: when the node counter nc has reached MAXTREESIZE, the simulations of
\* a Search still descend through the expanded nodes and update the
\* statistics of the path: after a Search with at least one simulation on
\* a reused root that has active children, some node of the tree has more
\* visits than it had when the Search began.
C14_SelectionOnly ==
    (/\ Searched
     /\ trace.reused
     /\ result[1].sims > 0
     /\ t.nc >= MAXTREESIZE
     /\ ~Ended(result[1].state).ended
     /\ InArena(t, t.root)
     /\ ActiveVisits(t, t.root) > 0)
    => \E h \in DOMAIN trace.kept : NodeOf(t, h).visits > trace.kept[h]

\* the arena slots that are not on the free list
LiveNodes(e) == e.nlen - Len(e.freelist)

\* C15: in every reachable state, during and after any Search, the number
\* of live nodes never exceeds MAXTREESIZE.
C15_LiveNodesCapped == LiveNodes(t) <= MAXTREESIZE

\* C16: Node.Update is atomic with respect to concurrent Updates of the
\* same node: after k Updates of a node that New left with visits 1 and
\* qsa 0, visits is 1 + k and qsa is the sum of the k scores over 1 + k,
\* whatever the interleaving. Stated for the states a Search returns in.
C16_UpdateAtomic ==
    Searched
    => \A h \in Tree(t) \ {t.root} :
          NodeOf(t, h).status = Active
          => RatMul(NodeOf(t, h).qsa, FromInt(NodeOf(t, h).visits))
               = NodeOf(t, h).sum

\* C17: handles are stable while their slot is unreclaimed: the n.visits++
\* a simulation makes through the reference next it took from a handle
\* (search.go:559, 570) shows in the node a lookup of that handle gives
\* afterwards, whether or not an alloc grew the arena in between.
C17_UpdateVisible ==
    [][\A w \in DOMAIN workers :
          (/\ phase = "running" /\ w \in DOMAIN workers'
           /\ workers[w].stack # <<>> /\ Top(workers[w]).pc = "visit"
           /\ workers'[w] # workers[w])
          => NodeOf(t', Top(workers[w]).next).visits
               = NodeOf(t, Top(workers[w]).next).visits + 1]_vars

\* C18: with one simulation at a time and a deterministic evaluator, Search,
\* then the chosen move applied, then a Search that reuses the tree gives
\* the new root and its subtree the visit counts a Search on a fresh
\* engine gives from that position. The root of a fresh engine is made by
\* New with visits 1 and no Update ever reaches a root, so the new root
\* has visits 1 after the second Search.
C18_ReuseAsFresh ==
    (/\ Searched /\ result[1].sims = 1 /\ ~result[1].err
     /\ trace.reused /\ Len(trace.steps) = 1
     /\ trace.last # <<>> /\ ~trace.last[1].err
     /\ Position(result[1].state)
          = Append(Position(trace.last[1].state), trace.last[1].move))
    => NodeOf(t, t.root).visits = 1

\* C19: no engine on which Search can be called is built from a
\* configuration with PUCT <= 0 or NumSimulation <= 0.
C19_InvalidRefused ==
    phase = "idle" => RatLess(Zero, t.conf.PUCT) /\ t.conf.NumSimulation > 0

StepAt(w, pc) ==
    /\ phase = "running"
    /\ w \in DOMAIN workers /\ w \in DOMAIN workers'
    /\ workers[w].stack # <<>>
    /\ Top(workers[w]).pc = pc
    /\ workers'[w] # workers[w]

\* C21: when the evaluator returns NaN for the state, expandAndSimulate
\* returns 0: the activation ends, its caller gets the value 0, no node is
\* allocated, no child is appended and hasChildren of the parent stays
\* false.
C21_NaNNoExpansion ==
    [][\A w \in DOMAIN workers :
          (StepAt(w, "expand") /\ IsNaN(InferValue(workers[w].g)))
          => /\ t' = t
             /\ ~NodeOf(t', Top(workers[w]).node).hasChildren
             /\ workers'[w] = Return(workers[w], Zero)]_vars

\* a simulation has come back with 0 from a child whose state the
\* evaluator gives NaN for, and the child has no children
C21_Witness ==
    \E w \in DOMAIN workers :
        /\ phase = "running"
        /\ workers[w].stack # <<>>
        /\ Top(workers[w]).pc = "accumulate"
        /\ Top(workers[w]).depth < t.conf.MaxDepth
        /\ t.nc < MAXTREESIZE
        /\ ~Ended(workers[w].g).ended
        /\ IsNaN(InferValue(workers[w].g))
        /\ Top(workers[w]).v = Zero
        /\ Children(t, Top(workers[w]).next) = <<>>
        /\ ~NodeOf(t, Top(workers[w]).next).hasChildren

\* C22: the Dirichlet noise is applied to the priors of the children of
\* the root only: the child New makes when a node other than the root is
\* expanded gets the normalised prior of its move as psa.
C22_NoiseRootOnly ==
    [][\A w \in DOMAIN workers :
          (/\ StepAt(w, "init")
           /\ Top(workers[w]).node # t.root
           /\ Top(workers[w]).nngen = t.gen)
          => NodeOf(t', Top(workers[w]).nn).psa
               = Top(workers[w]).list[Top(workers[w]).i].Prior]_vars

\* what the claim C23 has pipeline return on the ended state g
TerminalReward(g) ==
    IF Ended(g).winner = NoColor THEN Zero
    ELSE IF Turn(g) = Ended(g).winner THEN <<-1, 1>>
    ELSE One

\* the activation simulation w enters is handed an ended state
EntersEnded(w) == StepAt(w, "enter") /\ Ended(workers[w].g).ended

\* the activation ends with r: the caller has r as the value it passes to
\* next.Update, and the engine is as it was
ReturnsUntouched(w, r) ==
    /\ t' = t
    /\ Len(workers'[w].stack) = Len(workers[w].stack) - 1
    /\ workers'[w].stack # <<>>
         => /\ Top(workers'[w]).pc = "accumulate"
            /\ Top(workers'[w]).v = r
            /\ Top(workers'[w]).next = Top(workers[w]).node

ExpandReturns(w) ==
    /\ StepAt(w, "sethas") \/ StepAt(w, "find")
    /\ Len(workers'[w].stack) = Len(workers[w].stack) - 1
    /\ workers'[w].stack # <<>>

\* C24: a non-terminal node without children that pipeline reaches is
\* expanded and updated with the value v the evaluator gave for its state,
\* with the same sign: v is the value Update of that node is called with.
C24_ExpandedUpdatedWithValue ==
    [][\A w \in DOMAIN workers :
          ExpandReturns(w)
          => /\ Top(workers'[w]).next = Top(workers[w]).node
             /\ Top(workers'[w]).v = Top(workers[w]).value]_vars

\* C25: along the path of one simulation the values two consecutive nodes
\* are updated with have equal magnitude and opposite sign: an activation
\* updates the child it selected with the value v the recursion returned
\* and returns -v, which is the value its caller updates the activation's
\* own node with.
C25_SignFlip ==
    [][\A w \in DOMAIN workers :
          /\ (StepAt(w, "accumulate") /\ Top(workers[w]).nextgen = t.gen)
             => NodeOf(t', Top(workers[w]).next).sum
                  = RatAdd(NodeOf(t, Top(workers[w]).next).sum, Top(workers[w]).v)
          /\ (StepAt(w, "visit") /\ Len(workers[w].stack) >= 2)
             => /\ Len(workers'[w].stack) = Len(workers[w].stack) - 1
                /\ Top(workers'[w]).pc = "accumulate"
                /\ Top(workers'[w]).next = Top(workers[w]).node
                /\ Top(workers'[w]).v = RatNeg(Top(workers[w]).v)]_vars

\* a simulation has updated a grandchild of the root with a value other
\* than 0 and holds the opposite value for the child above it
C25_Witness ==
    \E w \in DOMAIN workers :
        /\ phase = "running"
        /\ Len(workers[w].stack) = 1
        /\ Top(workers[w]).pc = "accumulate"
        /\ Top(workers[w]).v # Zero
        /\ \E i \in 1 .. Len(Children(t, Top(workers[w]).next)) :
              LET c == NodeOf(t, Children(t, Top(workers[w]).next)[i]) IN
              c.visits = 2 /\ c.sum = RatNeg(Top(workers[w]).v)

\* the sum of the visits of the children of h that are not Invalid
ValidVisits(e, h) ==
    LET kids == Children(e, h)
        F[i \in 0 .. Len(kids)] ==
            IF i = 0 THEN 0
            ELSE F[i - 1] + (IF NodeOf(e, kids[i]).status # Invalid
                               THEN NodeOf(e, kids[i]).visits ELSE 0)
    IN F[Len(kids)]

\* the child c of h scores more than the child d: qsa + PUCT * psa *
\* sqrt(ValidVisits) / (1 + visits), with 0 for the qsa of a child without
\* visits
Outscores(e, h, c, d) ==
    LET term(k) == [q |-> IF NodeOf(e, k).visits > 0 THEN NodeOf(e, k).qsa ELSE Zero,
                    c |-> RatDiv(RatMul(e.conf.PUCT, NodeOf(e, k).psa),
                                 FromInt(1 + NodeOf(e, k).visits))]
    IN ScoreGreater(term(c), term(d), ValidVisits(e, h))

\* the nodes a simulation is about to select on that have at least one
\* Active child
Selectable(e) ==
    { h \in { Top(workers[w]).node :
                w \in { x \in DOMAIN workers : /\ phase = "running"
                                               /\ workers[x].stack # <<>>
                                               /\ Top(workers[x]).pc = "select" } } :
        \E i \in 1 .. Len(Children(e, h)) :
            /\ InArena(e, Children(e, h)[i])
            /\ NodeOf(e, Children(e, h)[i]).status = Active }

\* C26: on a node with at least one Active child, reached by a simulation
\* at its selection step, Select returns an Active
\* child whose score no Active child exceeds, and every Active child
\* earlier in the child list scores strictly less; it never returns an
\* Invalid or a Pruned child.
C26_SelectArgmax ==
    \A h \in Selectable(t) :
        (\A i \in 1 .. Len(Children(t, h)) : InArena(t, Children(t, h)[i]))
        => LET kids == Children(t, h)
               best == Select(t, h)
           IN \E b \in 1 .. Len(kids) :
                 /\ kids[b] = best
                 /\ NodeOf(t, best).status = Active
                 /\ \A i \in 1 .. Len(kids) :
                       NodeOf(t, kids[i]).status = Active
                       => /\ ~Outscores(t, h, kids[i], best)
                          /\ i < b => Outscores(t, h, best, kids[i])
                 /\ \A i \in 1 .. b - 1 : kids[i] # best

\* a simulation is about to select among children of which the first is
\* not Active and two others have the maximal score, and Select takes the
\* earlier of the two
C26_Witness ==
    \E w \in DOMAIN workers :
        /\ phase = "running"
        /\ workers[w].stack # <<>>
        /\ Top(workers[w]).pc = "select"
        /\ LET h == Top(workers[w]).node
               kids == Children(t, h)
           IN \E b, c \in 1 .. Len(kids) :
                 /\ 1 < b /\ b < c
                 /\ NodeOf(t, kids[1]).status # Active
                 /\ kids[b] = Select(t, h)
                 /\ NodeOf(t, kids[c]).status = Active
                 /\ ~Outscores(t, h, kids[b], kids[c])

\* a simulation is at its selection step on a node with children none of
\* which is Active
NoActiveChild(w) ==
    /\ phase = "running"
    /\ workers[w].stack # <<>>
    /\ Top(workers[w]).pc = "select"
    /\ Children(t, Top(workers[w]).node) # <<>>
    /\ \A i \in 1 .. Len(Children(t, Top(workers[w]).node)) :
          /\ InArena(t, Children(t, Top(workers[w]).node)[i])
          /\ NodeOf(t, Children(t, Top(workers[w]).node)[i]).status # Active

Answered ==
    /\ Searched
    /\ ~result[1].err
    /\ ~trace.reset
    /\ t.prev = <<t.current>>

\* C29: the move a successful Search returns is the move of some child of
\* the root, and when the move number has reached RandomCount it is the
\* move of a valid child of the root whose visits no valid child exceeds.
C29_BestMove ==
    Answered =>
        LET kids == Children(t, t.root) IN
        /\ \E i \in 1 .. Len(kids) : NodeOf(t, kids[i]).move = result[1].move
        /\ MoveNumber(t.current) >= t.conf.RandomCount
           => \E i \in 1 .. Len(kids) :
                 /\ NodeOf(t, kids[i]).move = result[1].move
                 /\ NodeOf(t, kids[i]).status # Invalid
                 /\ \A j \in 1 .. Len(kids) :
                       NodeOf(t, kids[j]).status # Invalid
                       => NodeOf(t, kids[j]).visits <= NodeOf(t, kids[i]).visits

\* past RandomCount a Search has returned the move of the most visited of
\* root children that differ in visits
C29_Witness ==
    /\ Answered
    /\ MoveNumber(t.current) >= t.conf.RandomCount
    /\ \E i, j \in 1 .. Len(Children(t, t.root)) :
          /\ NodeOf(t, Children(t, t.root)[i]).move = result[1].move
          /\ NodeOf(t, Children(t, t.root)[j]).visits
               < NodeOf(t, Children(t, t.root)[i]).visits

\* updateRoot runs on an engine that has a root and gives up the reuse of
\* the tree
Abandons ==
    /\ Between
    /\ t.root # nilNode
    /\ phase' # phase
    /\ ~trace'.reused

\* C30: when the reuse of the tree is abandoned the Search runs on a fresh
\* root: a newly allocated Active node with an empty child list and
\* hasChildren false that is not a node of the previous tree.
C30_FreshRoot ==
    [][Abandons
       => /\ phase' = "rooted"
          /\ InArena(t', t'.root)
          /\ t'.root \notin Tree(t)
          /\ NodeOf(t', t'.root).status = Active
          /\ Children(t', t'.root) = <<>>
          /\ ~NodeOf(t', t'.root).hasChildren]_vars

\* C31: in the budgeted Search, once the timer has fired and the context is
\* cancelled, every goroutine of doSearch leaves its loop and Search
\* returns: none stays blocked on the channel of searchStates.
C31_CancelledReturns ==
    (phase = "running" /\ driver.cancelled)
       ~> (/\ phase = "idle"
           /\ result # <<>>
           /\ workers = <<>>)

\* the context is cancelled while one goroutine of doSearch is inside
\* pipeline and another has left its loop
C31_Witness ==
    /\ phase = "running"
    /\ driver.cancelled
    /\ \E v, w \in DOMAIN workers :
          /\ workers[v].pc = "sim"
          /\ workers[w].pc = "done"


Frees ==
    \/ Len(t'.freelist) > Len(t.freelist)
    \/ \E i \in 1 .. Len(t'.freelist) : t'.freelist[i] # t.freelist[i]

\* no simulation is running
Quiescent == \A w \in DOMAIN workers : workers[w].stack = <<>>

\* C33: a step that puts a handle on the free list (free called on the
\* freeables at the start of Search, or Reset) is taken only when no
\* simulation is running.
C33_FreeQuiescent == [][Frees => Quiescent]_vars

\* the freeables have been freed, one of them is still on the free list,
\* and a simulation is running
C33_Witness ==
    /\ phase = "running"
    /\ \E w \in DOMAIN workers : workers[w].stack # <<>>
    /\ \E i \in 1 .. Len(t.freeables) : \E j \in 1 .. Len(t.freelist) :
          t.freelist[j] = t.freeables[i]


\* the handles the current root reaches: the root and the handles in the
\* child lists below it
Reachable(e) ==
    IF e.root = nilNode THEN {}
    ELSE IF ~InArena(e, e.root) THEN {e.root}
    ELSE {e.root} \cup Below(e.children, e.root)

\* the handles alloc hands out next
OnFreeList(e) == { e.freelist[i] : i \in 1 .. Len(e.freelist) }

\* C34: in every state of a run of Search calls with moves of the game
\* between them, no handle is twice on the free list and no handle on the
\* free list is the current root or in the child list of a node the
\* current root reaches.
C34_FreeListDead ==
    /\ \A i, j \in 1 .. Len(t.freelist) : t.freelist[i] = t.freelist[j] => i = j
    /\ OnFreeList(t) \cap Reachable(t) = {}

\* on a promoted root, a handle that was freed at the start of the Search
\* has been handed out again and is below the root, and another is still
\* on the free list
C34_Witness ==
    /\ phase = "running"
    /\ trace.reused
    /\ t.freelist # <<>>
    /\ \E i \in 1 .. Len(t.freeables) :
          t.freeables[i] \in Below(t.children, t.root)


\* Search has run updateRoot and is through the loop that frees the
\* freeables
Drains == phase = "rooted" /\ phase' = "running"

\* C35: after updateRoot and the freeing of the freeables every slot of the
\* arena is the current root, below the current root or on the free list.
C35_NoLeak ==
    [][Drains
       => \A h \in 0 .. t'.nlen - 1 :
             h \in Reachable(t') \cup OnFreeList(t')]_vars


\* simulation w runs the n.visits++ of next.Update on the node h, through
\* a reference into the backing array the arena has now
Visits(w, h) ==
    /\ StepAt(w, "visit")
    /\ Top(workers[w]).next = h
    /\ Top(workers[w]).nextgen = t.gen

\* simulation w runs the n.visits++ through a reference into a backing
\* array the arena has left
VisitsStale(w) == StepAt(w, "visit") /\ Top(workers[w]).nextgen # t.gen

\* what the children of the root have gained in visits over the Search
RootKidsGain ==
    LET kids == Children(t, t.root)
        F[i \in 0 .. Len(kids)] ==
            IF i = 0 THEN 0
            ELSE F[i - 1] + NodeOf(t, kids[i]).visits - trace.kept[kids[i]]
    IN F[Len(kids)]

\* a Search without an error has returned; it kept the root, which had
\* children and room below the cap, and with MaxDepth 1 each simulation
\* selected a child of the root, got 0 from the recursion and updated it
SelectedOnly ==
    /\ phase = "idle"
    /\ result # <<>>
    /\ ~result[1].err
    /\ ~trace.reset
    /\ trace.reused
    /\ t.conf.MaxDepth = 1
    /\ t.nc < MAXTREESIZE
    /\ t.root \in DOMAIN trace.snap
    /\ trace.snap[t.root].node.hasChildren
    /\ trace.snap[t.root].kids # <<>>
    /\ \E i \in 1 .. Len(trace.snap[t.root].kids) :
          NodeOf(t, trace.snap[t.root].kids[i]).status = Active

\* C36: while the arena is not reallocated no increment of visits is lost.
\* Each step of a running Search raises the visits of a node below the root
\* by 1 when it is the n.visits++ of an Update of that node and leaves them
\* as they are otherwise; and when every simulation of a Search selected a
\* child of the root and updated it, the visits the children of the root
\* have gained add up to the number of simulations.
C36_NoLostVisit ==
    /\ [](SelectedOnly => RootKidsGain = result[1].sims)
    /\ [][(phase = "running" /\ phase' = "running"
           /\ ~\E w \in DOMAIN workers : VisitsStale(w))
          => \A h \in Tree(t) \ {t.root} :
                NodeOf(t', h).visits
                  = NodeOf(t, h).visits
                    + (IF \E w \in DOMAIN workers : Visits(w, h) THEN 1 ELSE 0)]_vars

\* two simulations of one Search have updated the same child of the root,
\* which has gained two visits
C36_Witness ==
    /\ SelectedOnly
    /\ result[1].sims = 2
    /\ \E i \in 1 .. Len(Children(t, t.root)) :
          NodeOf(t, Children(t, t.root)[i]).visits
            = trace.kept[Children(t, t.root)[i]] + 2


\* q is a number between -1 and +1
InUnit(q) ==
    /\ ~IsNaN(q)
    /\ ~RatLess(One, q)
    /\ ~RatLess(q, RatNeg(One))

\* C37: in every reachable state the qsa of every node of the arena lies
\* in [-1, +1], whatever the interleaving of the Updates of the node.
C37_QsaInUnit == \A i \in 1 .. t.nlen : InUnit(t.nodes[i].qsa)

\* two Updates of one node have interleaved: both computed their mean with
\* the visits New left, and the qsa is 3/4 in size after three visits
C37_Witness ==
    \E i \in 1 .. t.nlen :
        /\ t.nodes[i].visits = 3
        /\ t.nodes[i].qsa \in {<<3, 4>>, <<-3, 4>>}


\* C38: no simulation holds the lock of the tree or the mutex of a node
\* while it waits for one of these locks, and every simulation that waits
\* for one of them gets it.
C38_DeadlockFree ==
    /\ [](\A w \in 1 .. LockSims : Waiting(w) => ~Holding(w))
    /\ \A w \in 1 .. LockSims : Waiting(w) ~> ~Waiting(w)


\* C39: no step of a Search, from updateRoot to the return, changes the
\* game state t.current: the simulations apply their moves to their clones
\* and the replay of newRootState applies its moves to prev.
C39_CurrentUnchanged ==
    [][(phase # "idle" \/ phase' # "idle") => t'.current = t.current]_vars

\* a Search has returned a move for the position it was called on, after
\* a replay that promoted a child and simulations that selected a child of
\* the root and applied its move
C39_Witness ==
    /\ phase = "idle"
    /\ result # <<>>
    /\ ~result[1].err
    /\ ~trace.reset
    /\ result[1].state = t.current
    /\ trace.reused
    /\ trace.steps # <<>>
    /\ t.nc < MAXTREESIZE
    /\ t.conf.NumSimulation > 0
    /\ t.root \in DOMAIN trace.snap
    /\ trace.snap[t.root].node.hasChildren
    /\ trace.snap[t.root].kids # <<>>

=============================================================================
